---- MODULE Spec2Model ----
(***************************************************************************)
(* A model of riegeli's ZstdReader (riegeli/zstd/zstd_reader.cc): a        *)
(* buffered reader that decompresses one Zstd frame read from a backing    *)
(* Reader.                                                                 *)
(*                                                                         *)
(* The compressed stream is a sequence of tokens, one token standing for   *)
(* one compressed byte.  A frame is a two-token header (magic, frame       *)
(* content size), block tokens and an end token; a skippable frame is a    *)
(* skippable magic, a length and that many payload tokens.  A block token  *)
(* decodes to one or two bytes, so that the engine has to carry output     *)
(* that did not fit into the caller's buffer from one call to the next.    *)
(***************************************************************************)
EXTENDS Integers, Sequences, FiniteSets, TLC

\* ---------------------------------------------------------------- bounds

\* The largest number of block tokens of a frame.
MaxBlocks == 2

\* The buffer length BufferOptions selects.
BufLen == 2

\* std::numeric_limits<Position>::max(), scaled down so that frames longer
\* than the position range exist within the bounds.
PositionMax == 3

\* ZSTD_FRAMEHEADERSIZE_PREFIX(ZSTD_f_zstd1): the tokens needed before the
\* frame header parser can say how long the header is.
FrameHeaderSizePrefix == 1

\* frameContentSize of a header that declares no size (nullopt as well).
Unknown == -1

Min(a, b) == IF a < b THEN a ELSE b

Max(a, b) == IF a > b THEN a ELSE b

Concat(a, b) == a \o b

Take(q, n) == SubSeq(q, 1, Min(n, Len(q)))

Drop(q, n) == SubSeq(q, Min(n, Len(q)) + 1, Len(q))

IsPrefix(p, q) == Len(p) <= Len(q) /\ SubSeq(q, 1, Len(p)) = p

SeqsUpTo(S, n) == UNION {[1..k -> S] : k \in 0..n}

\* ------------------------------------------------- the compressed format

Magic == <<"M", 0>>

SkipMagic == <<"S", 0>>

Fcs(d) == <<"F", d>>

EndMark == <<"E", 0>>

Junk == <<"X", 0>>

\* The block tokens: a literal 0, and a block that decodes to <<1, 0>>.
BlockTokens == {<<"L", 0>>, <<"D", 1>>}

\* What a block token decodes to.
BlockBytes(t) == IF t[1] = "L" THEN <<t[2]>> ELSE <<t[2], 1 - t[2]>>

IsBlock(t) == t[1] \in {"L", "D"}

\* Runs of blocks, and runs that junk cuts short (what follows the first junk
\* token is never looked at).
BlockRuns ==
    SeqsUpTo(BlockTokens, MaxBlocks)
        \cup {Append(b, Junk) : b \in SeqsUpTo(BlockTokens, MaxBlocks - 1)}

\* Zstd frames, well formed or not: any declared size, junk among the blocks.
ZstdFrames ==
    {<<Magic, Fcs(d)>> \o b \o <<EndMark>> :
        d \in Unknown..PositionMax, b \in BlockRuns}

SkippableFrames == {<<SkipMagic, Fcs(k)>> \o [i \in 1..k |-> Junk] : k \in 0..1}

\* Streams whose first bytes are no frame header.
BadFrames == {<<Junk, EndMark>>, <<Magic, Junk>>}

Frames == ZstdFrames \cup SkippableFrames \cup BadFrames

IsSkippable(f) == f[1] = SkipMagic

RECURSIVE BlocksContent(_)
\* The bytes a run of block tokens stands for.
BlocksContent(b) ==
    IF b = <<>> THEN <<>> ELSE BlockBytes(Head(b)) \o BlocksContent(Tail(b))

FrameBlocks(f) == SubSeq(f, 3, Len(f) - 1)

\* The uncompressed content of a well-formed frame, by the format.
FrameContent(f) == IF IsSkippable(f) THEN <<>> ELSE BlocksContent(FrameBlocks(f))

\* A frame the format allows: only blocks between header and end mark, and a
\* declared size, if any, that is the size of the content.
ValidFrame(f) ==
    \/ IsSkippable(f)
    \/ /\ f \in ZstdFrames
       /\ \A i \in 3..(Len(f) - 1) : IsBlock(f[i])
       /\ f[2][2] \in {Unknown, Len(FrameContent(f))}

\* ------------------------------------------------------------- statuses

OkStatus == [code |-> "Ok", msg |-> "", notes |-> <<>>]

Status(code, msg) == [code |-> code, msg |-> msg, notes |-> <<>>]

\* riegeli::Annotate(): the annotation is added and the original status kept.
Annotate(status, tag, n) ==
    IF status.code = "Ok" THEN status
    ELSE [status EXCEPT !.notes = Append(@, <<tag, n>>)]

HasNote(status, tag) == \E i \in 1..Len(status.notes) : status.notes[i][1] = tag

\* ------------------------------------------------- the compressed source

\* The source Reader: `data` is everything the source will ever hold, `len`
\* how much of it exists now, [pos, lim) the window it exposes (cursor and
\* limit), `chunk` how it refills: "byte" exposes no more than was asked
\* for, "whole" everything there is.  `broken` makes the next refill fail.
SrcAvailable(s) == s.lim - s.pos

SrcFail(s) ==
    [s EXCEPT !.status = Annotate(Status("Unavailable", "read failed"), "at byte", s.lim)]

SrcOk(s) == s.status.code = "Ok"

\* Reader::Pull(min_length): true iff min_length bytes are available after it.
SrcPull(s, min_length) ==
    IF SrcAvailable(s) >= min_length THEN [s |-> s, ret |-> TRUE]
    ELSE IF ~SrcOk(s) THEN [s |-> s, ret |-> FALSE]
    ELSE IF s.broken THEN [s |-> SrcFail(s), ret |-> FALSE]
    ELSE LET want == IF s.chunk = "byte" THEN Min(s.pos + min_length, s.len) ELSE s.len
             lim == Max(s.lim, want)
         IN  [s |-> [s EXCEPT !.lim = lim], ret |-> lim - s.pos >= min_length]

\* Reader::Seek(new_pos) of the source.
SrcSeek(s, new_pos) ==
    IF ~SrcOk(s) THEN [s |-> s, ret |-> FALSE]
    ELSE IF new_pos = s.pos THEN [s |-> s, ret |-> TRUE]
    ELSE IF s.broken THEN [s |-> SrcFail(s), ret |-> FALSE]
    ELSE IF new_pos > s.len THEN [s |-> [s EXCEPT !.pos = s.len, !.lim = s.len], ret |-> FALSE]
    ELSE [s |-> [s EXCEPT !.pos = new_pos, !.lim = new_pos], ret |-> TRUE]

\* Reader::AnnotateStatus() of the source: its own position context.
SrcAnnotateStatus(s, status) == Annotate(status, "at byte", s.pos)

\* The tokens between cursor and limit.
SrcWindow(s) == SubSeq(s.data, s.pos + 1, s.lim)

\* ------------------------------------------------------ the Zstd engine

\* A decompression context (ZSTD_DCtx): `stage` is what it expects next,
\* `fcs` the content size the header declared, `count` the bytes decoded so
\* far, `pending` decoded bytes that did not fit into the output yet,
\* `stable` the ZSTD_d_stableOutBuffer parameter.
FreshDctx ==
    [stage |-> "magic", fcs |-> Unknown, count |-> 0, pending |-> <<>>,
     stable |-> FALSE, skip |-> 0]

\* decompressor_ == nullptr.
NullDctx == [FreshDctx EXCEPT !.stage = "null"]

Outcome(d, n, out, result) == [d |-> d, consumed |-> n, out |-> out, result |-> result]

RECURSIVE DecompressFrom(_, _, _, _, _)
\* ZSTD_decompressStream() after `n` tokens of `input` were consumed and `out`
\* was written to an output of `size` bytes.  It flushes pending output, then
\* takes tokens until the input is used up, the output is full, the frame
\* ends ("end", the library's 0) or an error shows ("error"); "more" is the
\* library's positive hint.
DecompressFrom(d, size, input, n, out) ==
    IF d.pending # <<>>
    THEN LET k == Min(Len(d.pending), size - Len(out))
             d1 == [d EXCEPT !.pending = Drop(@, k)]
             out1 == out \o Take(d.pending, k)
         IN  IF d1.pending # <<>> THEN Outcome(d1, n, out1, "more")
             ELSE DecompressFrom(d1, size, input, n, out1)
    ELSE IF n = Len(input) THEN Outcome(d, n, out, "more")
    ELSE LET t == input[n + 1] IN
    CASE d.stage = "magic" ->
           IF t = Magic THEN DecompressFrom([d EXCEPT !.stage = "fcs"], size, input, n + 1, out)
           ELSE IF t = SkipMagic
           THEN DecompressFrom([d EXCEPT !.stage = "skiplen"], size, input, n + 1, out)
           ELSE Outcome(d, n, out, "error")
      [] d.stage = "fcs" ->
           IF t[1] = "F"
           THEN DecompressFrom([d EXCEPT !.stage = "blocks", !.fcs = t[2]], size, input, n + 1, out)
           ELSE Outcome(d, n, out, "error")
      [] d.stage = "skiplen" ->
           IF t[1] # "F" THEN Outcome(d, n, out, "error")
           ELSE IF t[2] = 0 THEN Outcome(d, n + 1, out, "end")
           ELSE DecompressFrom([d EXCEPT !.stage = "skip", !.skip = t[2]], size, input, n + 1, out)
      [] d.stage = "skip" ->
           IF d.skip = 1 THEN Outcome(d, n + 1, out, "end")
           ELSE DecompressFrom([d EXCEPT !.skip = @ - 1], size, input, n + 1, out)
      [] d.stage = "blocks" ->
           IF IsBlock(t)
           THEN LET b == BlockBytes(t) IN
                IF d.fcs # Unknown /\ d.count + Len(b) > d.fcs THEN Outcome(d, n, out, "error")
                ELSE IF d.stable
                THEN IF Len(b) > size - Len(out) THEN Outcome(d, n, out, "error")
                     ELSE DecompressFrom([d EXCEPT !.count = @ + Len(b)], size, input, n + 1,
                                         out \o b)
                ELSE DecompressFrom([d EXCEPT !.count = @ + Len(b), !.pending = b], size, input,
                                    n + 1, out)
           ELSE IF t = EndMark
           THEN IF d.fcs # Unknown /\ d.count # d.fcs THEN Outcome(d, n, out, "error")
                ELSE Outcome(d, n + 1, out, "end")
           ELSE Outcome(d, n, out, "error")
      [] OTHER -> Outcome(d, n, out, "error")

\* ZSTD_decompressStream(dctx, &output, &input) on an empty output of `size`.
ZSTD_decompressStream(d, size, input) == DecompressFrom(d, size, input, 0, <<>>)

\* ZSTD_getFrameHeader(&header, src, srcSize): "ok" with the header, "error",
\* or the number of tokens it needs.
ZSTD_getFrameHeader(input) ==
    IF Len(input) = 0 THEN [result |-> "need", need |-> FrameHeaderSizePrefix]
    ELSE IF input[1] \notin {Magic, SkipMagic} THEN [result |-> "error"]
    ELSE IF Len(input) < 2 THEN [result |-> "need", need |-> 2]
    ELSE IF input[2][1] # "F" THEN [result |-> "error"]
    ELSE [result |-> "ok", skippable |-> input[1] = SkipMagic, frameContentSize |-> input[2][2]]

\* ------------------------------------------------- frame header probing

RECURSIVE GetFrameHeaderLoop(_)
\* The loop of GetFrameHeader(): parse, and pull what the parser asks for.
GetFrameHeaderLoop(s) ==
    LET h == ZSTD_getFrameHeader(SrcWindow(s)) IN
    IF h.result = "ok" THEN [s |-> s, ret |-> TRUE, header |-> h]
    ELSE IF h.result = "error" THEN [s |-> s, ret |-> FALSE, header |-> h]
    ELSE LET p == SrcPull(s, h.need) IN
         IF ~p.ret THEN [s |-> p.s, ret |-> FALSE, header |-> h]
         ELSE GetFrameHeaderLoop(p.s)

GetFrameHeader(s) ==
    LET p == SrcPull(s, FrameHeaderSizePrefix) IN
    IF ~p.ret THEN [s |-> p.s, ret |-> FALSE, header |-> [result |-> "error"]]
    ELSE GetFrameHeaderLoop(p.s)

\* The size ZstdUncompressedSize() makes of what GetFrameHeader() returned.
SizeOfHeader(g) ==
    IF ~g.ret THEN [s |-> g.s, size |-> Unknown]
    ELSE IF g.header.skippable THEN [s |-> g.s, size |-> 0]
    ELSE [s |-> g.s, size |-> g.header.frameContentSize]

\* ZstdUncompressedSize() taking a skippable frame's length field for a size.
ZstdUncompressedSize_NoSkippable(s) ==
    LET g == GetFrameHeader(s) IN
    IF ~g.ret THEN [s |-> g.s, size |-> Unknown]
    ELSE [s |-> g.s, size |-> g.header.frameContentSize]

\* ZstdUncompressedSize(src): the declared size, or Unknown for nullopt.
ZstdUncompressedSize(s) == SizeOfHeader(GetFrameHeader(s))

\* ----------------------------------------------------------- ZstdReader

\* A world `w` is the reader `w.z`, its source `w.s`, and `w.decoded`: the
\* bytes ReadInternal() has written since the decompressor was last
\* initialized (a history of the run, read by no operation).
\*
\* The reader's fields: growing_source, decompressor, just_initialized,
\* truncated, exact_size (Unknown for nullopt), initial_compressed_pos,
\* status and is_open; of BufferedReader: limit_pos, the buffer `buf` with
\* the cursor `cur` bytes after its start, and the buffer length `buf_len`.
ok(z) == z.status.code = "Ok"

available(z) == Len(z.buf) - z.cur

start_pos(z) == z.limit_pos - Len(z.buf)

pos(z) == z.limit_pos - available(z)

\* std::numeric_limits<size_t>::max(): above every length a caller asks for.
SizeMax == PositionMax + BufLen + 1

AnnotateOverSrc(w, status) ==
    IF w.z.is_open THEN Annotate(status, "at uncompressed byte", pos(w.z)) ELSE status

AnnotateStatusImpl(w, status) ==
    IF w.z.is_open
    THEN LET st1 == IF w.z.truncated
                    THEN Annotate(status, "reading truncated Zstd-compressed stream", 0)
                    ELSE status
         IN  AnnotateOverSrc(w, SrcAnnotateStatus(w.s, st1))
    ELSE AnnotateOverSrc(w, status)

\* Object::FailWithoutAnnotation(): the first failure is kept.
FailWithoutAnnotation(w, status) ==
    IF ok(w.z) THEN [w EXCEPT !.z.status = status] ELSE w

\* Object::Fail(): the status is annotated by the reader, then latched.
Fail(w, status) == FailWithoutAnnotation(w, AnnotateStatusImpl(w, status))

FailOverflow(w) == Fail(w, Status("ResourceExhausted", "Reader position overflow"))

move_limit_pos(w, length) == [w EXCEPT !.z.limit_pos = @ + length]

\* set_exact_size(ZstdUncompressedSize(src)): `u` is what the probe returned,
\* the size and the source after its pulls.
Probed(w, u) == [w EXCEPT !.s = u.s, !.z.exact_size = u.size]

\* InitializeDecompressor(src); `created` is whether ZSTD_createDCtx() and
\* the parameter and dictionary setup succeeded.  A failed setup fails the
\* reader with an Internal error before exact_size and just_initialized are
\* set; the context it may leave behind is never used again, the reader
\* being failed, and is not kept here.
InitializeDecompressor(w, created) ==
    IF ~created THEN Fail(w, Status("Internal", "ZSTD_createDCtx() failed"))
    ELSE Probed([w EXCEPT !.z.decompressor = FreshDctx, !.z.just_initialized = TRUE,
                          !.decoded = <<>>, !.resumed = FALSE],
                ZstdUncompressedSize(w.s))

\* ZstdReaderBase::Initialize(src) on a newly constructed reader.
Initialize(w, created) ==
    IF ~SrcOk(w.s) /\ SrcAvailable(w.s) = 0
    THEN FailWithoutAnnotation(w, AnnotateOverSrc(w, w.s.status))
    ELSE InitializeDecompressor([w EXCEPT !.z.initial_compressed_pos = w.s.pos], created)

\* What a call returns: the world after it, the value returned, the bytes
\* written to `dest` and the return statement taken.
Return(w, ret, out, exit) ==
    [w |-> [w EXCEPT !.decoded = @ \o out], ret |-> ret, out |-> out, exit |-> exit,
     stable |-> FALSE]

\* StableOutput() that does not ask whether the output has room for the frame.
StableOutput_AnyLength(z, max_length) ==
    /\ z.just_initialized
    /\ ~z.growing_source
    /\ z.exact_size # Unknown

\* Whether ReadInternal() promises the engine a stable output, and itself to
\* decode everything in this call.
StableOutput(z, max_length) ==
    /\ z.just_initialized
    /\ ~z.growing_source
    /\ z.exact_size # Unknown
    /\ max_length >= z.exact_size

\* SourceExhausted() failing the reader whether or not the source is growing.
SourceExhausted_AlwaysFails(w, min_length, out) ==
    LET w1 == move_limit_pos(w, Len(out)) IN
    IF ~SrcOk(w1.s)
    THEN Return(FailWithoutAnnotation(w1, AnnotateOverSrc(w1, w1.s.status)),
                Len(out) >= min_length, out, "source_failed")
    ELSE LET w2 == Fail(w1, Status("InvalidArgument", "Truncated Zstd-compressed stream")) IN
         Return([w2 EXCEPT !.z.truncated = TRUE], Len(out) >= min_length, out, "truncated")

\* SourceExhausted() giving the decompression context up.
SourceExhausted_DropsContext(w, min_length, out) ==
    LET w1 == move_limit_pos(w, Len(out)) IN
    IF ~SrcOk(w1.s)
    THEN Return(FailWithoutAnnotation(w1, AnnotateOverSrc(w1, w1.s.status)),
                Len(out) >= min_length, out, "source_failed")
    ELSE LET w2 == IF ~w1.z.growing_source
                   THEN Fail(w1, Status("InvalidArgument", "Truncated Zstd-compressed stream"))
                   ELSE w1
         IN  Return([w2 EXCEPT !.z.truncated = TRUE, !.z.decompressor = NullDctx],
                    Len(out) >= min_length, out, "truncated")

\* SourceExhausted() setting `truncated` before it fails the reader.
SourceExhausted_TruncatedFirst(w, min_length, out) ==
    LET w1 == move_limit_pos(w, Len(out)) IN
    IF ~SrcOk(w1.s)
    THEN Return(FailWithoutAnnotation(w1, AnnotateOverSrc(w1, w1.s.status)),
                Len(out) >= min_length, out, "source_failed")
    ELSE LET w2 == [w1 EXCEPT !.z.truncated = TRUE] IN
         Return(IF ~w2.z.growing_source
                THEN Fail(w2, Status("InvalidArgument", "Truncated Zstd-compressed stream"))
                ELSE w2,
                Len(out) >= min_length, out, "truncated")

\* ReadInternal(): the source could not supply another byte.
SourceExhausted(w, min_length, out) ==
    LET w1 == move_limit_pos(w, Len(out)) IN
    IF ~SrcOk(w1.s)
    THEN Return(FailWithoutAnnotation(w1, AnnotateOverSrc(w1, w1.s.status)),
                Len(out) >= min_length, out, "source_failed")
    ELSE LET w2 == IF ~w1.z.growing_source
                   THEN Fail(w1, Status("InvalidArgument", "Truncated Zstd-compressed stream"))
                   ELSE w1
         IN  Return([w2 EXCEPT !.z.truncated = TRUE], Len(out) >= min_length, out, "truncated")

\* ReadInternal(): ZSTD_decompressStream() reported the end of the frame.
FrameEnd(w, min_length, out) ==
    Return(move_limit_pos([w EXCEPT !.z.decompressor = NullDctx], Len(out)),
           Len(out) >= min_length, out, "frame_end")

\* ZstdError() returning false whatever was produced.
ZstdError_ReturnsFalse(w, min_length, out) ==
    Return(move_limit_pos(Fail(w, Status("InvalidArgument", "ZSTD_decompressStream() failed")),
                          Len(out)),
           FALSE, out, "zstd_error")

\* ReadInternal(): ZSTD_decompressStream() reported an error.
ZstdError(w, min_length, out) ==
    Return(move_limit_pos(Fail(w, Status("InvalidArgument", "ZSTD_decompressStream() failed")),
                          Len(out)),
           Len(out) >= min_length, out, "zstd_error")

RECURSIVE ReadLoop(_, _, _, _, _)
\* ReadInternal(): src.Pull(1, result) returned `p` when the engine wanted
\* more input.
Pulled(w1, p, min_length, effective_min_length, size, out1) ==
    IF ~p.ret THEN SourceExhausted([w1 EXCEPT !.s = p.s], min_length, out1)
    ELSE ReadLoop([w1 EXCEPT !.s = p.s], min_length, effective_min_length, size, out1)

\* Decompressed() failing with position overflow before limit_pos is moved.
Decompressed_OverflowNotAdvanced(w1, r, input_size, min_length, effective_min_length, size, out1) ==
    IF r.result = "end" THEN FrameEnd(w1, min_length, out1)
    ELSE IF r.result = "error" THEN ZstdError(w1, min_length, out1)
    ELSE IF Len(out1) >= effective_min_length
    THEN Return(move_limit_pos(w1, Len(out1)), TRUE, out1, "enough")
    ELSE IF r.consumed < input_size
    THEN Return(FailOverflow(w1), FALSE, out1, "overflow")
    ELSE Pulled(w1, SrcPull(w1.s, 1), min_length, effective_min_length, size, out1)

\* One round of the loop after ZSTD_decompressStream() returned `r`: the
\* cursor of the source is set and the result looked at.  `input_size` is what
\* the source had for the engine and `out1` what `output` holds now.
Decompressed(w1, r, input_size, min_length, effective_min_length, size, out1) ==
    IF r.result = "end" THEN FrameEnd(w1, min_length, out1)
    ELSE IF r.result = "error" THEN ZstdError(w1, min_length, out1)
    ELSE IF Len(out1) >= effective_min_length
    THEN Return(move_limit_pos(w1, Len(out1)), TRUE, out1, "enough")
    ELSE IF r.consumed < input_size
    THEN Return(FailOverflow(move_limit_pos(w1, Len(out1))), FALSE, out1, "overflow")
    ELSE Pulled(w1, SrcPull(w1.s, 1), min_length, effective_min_length, size, out1)

\* Round() setting the cursor of the source to the end of what the engine
\* was given.
Round_WholeWindow(w, r, min_length, effective_min_length, size, out) ==
    Decompressed([w EXCEPT !.z.decompressor = r.d, !.s.pos = w.s.lim], r,
                 SrcAvailable(w.s), min_length, effective_min_length, size, out \o r.out)

\* The round for what the engine returned.
Round(w, r, min_length, effective_min_length, size, out) ==
    Decompressed([w EXCEPT !.z.decompressor = r.d, !.s.pos = @ + r.consumed], r,
                 SrcAvailable(w.s), min_length, effective_min_length, size, out \o r.out)

\* The loop starting `output` afresh each time round.
ReadLoop_FreshOutput(w, min_length, effective_min_length, size, out) ==
    Round(w, ZSTD_decompressStream(w.z.decompressor, size, SrcWindow(w.s)),
          min_length, effective_min_length, size, <<>>)

\* The for (;;) loop of ReadInternal(), `out` being what `output` holds.
ReadLoop(w, min_length, effective_min_length, size, out) ==
    Round(w, ZSTD_decompressStream(w.z.decompressor, size - Len(out), SrcWindow(w.s)),
          min_length, effective_min_length, size, out)

\* ReadInternal(): the size is probed again in case the source has grown.
Reprobe(w) ==
    IF w.z.just_initialized /\ w.z.exact_size = Unknown
    THEN Probed(w, ZstdUncompressedSize(w.s))
    ELSE w

\* What ReadInternal() returns, with whether it promised a stable output.
Promised(r, stable) == [r EXCEPT !.stable = stable]

\* DecodeAs() leaving just_initialized as it found it.
DecodeAs_StaysInitialized(w, min_length, max_length, stable) ==
    Promised(ReadLoop([w EXCEPT !.z.decompressor.stable = IF stable THEN TRUE ELSE @],
                      min_length, IF stable THEN SizeMax ELSE min_length,
                      Min(max_length, PositionMax - w.z.limit_pos), <<>>),
             stable)

\* ReadInternal() from the choice of effective_min_length on; `stable` is
\* whether the output is promised stable.
DecodeAs(w, min_length, max_length, stable) ==
    Promised(ReadLoop([w EXCEPT !.z.decompressor.stable = IF stable THEN TRUE ELSE @,
                                !.z.just_initialized = FALSE],
                      min_length, IF stable THEN SizeMax ELSE min_length,
                      Min(max_length, PositionMax - w.z.limit_pos), <<>>),
             stable)

Decode(w, min_length, max_length) ==
    DecodeAs(w, min_length, max_length, StableOutput(w.z, max_length))

\* ZstdReaderBase::ReadInternal(min_length, max_length, dest).  The engine
\* takes ZSTD_d_stableOutBuffer in a context that has not decoded yet, which
\* just_initialized says it is.
ReadInternal(w, min_length, max_length) ==
    IF w.z.decompressor = NullDctx THEN Return(w, FALSE, <<>>, "no_decompressor")
    ELSE Decode(Reprobe([w EXCEPT !.z.truncated = FALSE]), min_length, max_length)

\* ------------------------------------------------------- BufferedReader

\* No ReadInternal() call was made.
NoCall == [exit |-> "none", ret |-> FALSE, enough |-> FALSE, stable |-> FALSE]

\* A ReadInternal() call as BufferedReader makes it.  `w.ri` records the
\* call: the return statement taken, the value returned, whether at least
\* min_length bytes were written, whether the output was promised stable;
\* `w.resumed` records that a call which found `truncated` set, after bytes
\* had been decoded, decoded more bytes.
Recorded(w, r, min_length) ==
    [r EXCEPT !.w.ri = [exit |-> r.exit, ret |-> r.ret, enough |-> Len(r.out) >= min_length,
                        stable |-> r.stable],
              !.w.resumed = @ \/ (w.z.truncated /\ w.decoded # <<>> /\ r.out # <<>>)]

CallReadInternal(w, min_length, max_length) ==
    Recorded(w, ReadInternal(w, min_length, max_length), min_length)

\* BufferedReader::SyncBuffer(): the buffer is dropped, limit_pos stays.
SyncBuffer(w) == [w EXCEPT !.z.buf = <<>>, !.z.cur = 0]

\* The buffer after ReadInternal() returned `r`: what it wrote follows the
\* bytes kept.
Appended(kept, r) == [w |-> [r.w EXCEPT !.z.buf = kept \o r.out], ret |-> r.ret]

\* BufferedReader::PullSlow(min_length): the available bytes are kept and one
\* ReadInternal() call appends to them.
BufferedPullSlow(w, min_length) ==
    IF ~ok(w.z) THEN [w |-> w, ret |-> FALSE]
    ELSE LET kept == Drop(w.z.buf, w.z.cur)
             need == min_length - Len(kept)
         IN  Appended(kept, CallReadInternal([w EXCEPT !.z.buf = kept, !.z.cur = 0], need,
                                             Max(need, w.z.buf_len - Len(kept))))

\* PullSlow() that always goes on to BufferedReader::PullSlow().
PullSlow_AlwaysBuffered(w, min_length) == BufferedPullSlow(w, min_length)

\* ZstdReaderBase::PullSlow(min_length, recommended_length).
PullSlow(w, min_length) ==
    IF w.z.decompressor = NullDctx THEN [w |-> w, ret |-> FALSE]
    ELSE BufferedPullSlow(w, min_length)

\* Reader::Pull(min_length).
Pull(w, min_length) ==
    IF available(w.z) >= min_length THEN [w |-> w, ret |-> TRUE]
    ELSE PullSlow(w, min_length)

RECURSIVE ReaderReadSlow(_, _, _)
\* The round of the loop after PullSlow(1) returned `p`, `got1` being what
\* `dest` holds.
ReadPulled(p, length, got1) ==
    IF ~p.ret THEN [w |-> p.w, ret |-> FALSE, out |-> got1]
    ELSE IF length - Len(got1) > available(p.w.z) THEN ReaderReadSlow(p.w, length, got1)
    ELSE [w |-> [p.w EXCEPT !.z.cur = @ + (length - Len(got1))], ret |-> TRUE,
          out |-> got1 \o SubSeq(p.w.z.buf, p.w.z.cur + 1,
                                 p.w.z.cur + (length - Len(got1)))]

\* Reader::ReadSlow(length, dest): copy what is available and pull, until
\* the rest is in the buffer.  `got` is what `dest` holds.
ReaderReadSlow(w, length, got) ==
    ReadPulled(PullSlow([w EXCEPT !.z.cur = Len(w.z.buf)], 1), length,
               got \o Drop(w.z.buf, w.z.cur))

\* What `dest` holds after ReadInternal() returned `r`, `got` having been
\* copied from the buffer.
ReadTo(got, r) == [w |-> r.w, ret |-> r.ret, out |-> got \o r.out]

\* BufferedReader::ReadSlow(length, dest): a read of at least the buffer
\* length goes straight to `dest`.
BufferedReadSlow(w, length) ==
    IF length >= w.z.buf_len
    THEN LET got == Drop(w.z.buf, w.z.cur)
             w0 == SyncBuffer(w)
         IN  IF ~ok(w0.z) THEN [w |-> w0, ret |-> FALSE, out |-> got]
             ELSE ReadTo(got, CallReadInternal(w0, length - Len(got), length - Len(got)))
    ELSE ReaderReadSlow(w, length, <<>>)

\* Reader::Read(length, dest).
Read(w, length) ==
    IF available(w.z) >= length
    THEN [w |-> [w EXCEPT !.z.cur = @ + length], ret |-> TRUE,
          out |-> SubSeq(w.z.buf, w.z.cur + 1, w.z.cur + length)]
    ELSE BufferedReadSlow(w, length)

RECURSIVE SkipForwards(_, _)
\* The round of the loop after PullSlow(1) returned `p`.
Skipped(p, new_pos) ==
    IF ~p.ret THEN [w |-> p.w, ret |-> FALSE]
    ELSE IF new_pos > p.w.z.limit_pos THEN SkipForwards(p.w, new_pos)
    ELSE [w |-> [p.w EXCEPT !.z.cur = Len(p.w.z.buf) - (p.w.z.limit_pos - new_pos)],
          ret |-> TRUE]

\* The loop of BufferedReader::SeekBehindBuffer(): pull and discard until
\* new_pos is in the buffer.
SkipForwards(w, new_pos) == Skipped(PullSlow([w EXCEPT !.z.cur = Len(w.z.buf)], 1), new_pos)

\* BufferedReader::SeekBehindBuffer(new_pos).
BufferedSeekBehindBuffer(w, new_pos) ==
    IF new_pos <= w.z.limit_pos
    THEN [w |-> Fail(w, Status("Unimplemented", "Reader::Seek() not supported")), ret |-> FALSE]
    ELSE SkipForwards(w, new_pos)

\* Reader::StatusOrAnnotate(other) of the source.
SrcStatusOrAnnotate(s, other) == IF ~SrcOk(s) THEN s.status ELSE SrcAnnotateStatus(s, other)

\* A rewind to the very start of the source.
RewindTarget_SourceStart(z) == 0

\* The source position a rewind seeks to.
RewindTarget(z) == z.initial_compressed_pos

\* SeekBehindBuffer() after InitializeDecompressor() made `w3` of the reader.
Reinitialized(w3, new_pos) ==
    IF ~ok(w3.z) THEN [w |-> w3, ret |-> FALSE]
    ELSE IF new_pos = 0 THEN [w |-> w3, ret |-> TRUE]
    ELSE BufferedSeekBehindBuffer(w3, new_pos)

\* Rewound() failing with the data loss error whatever the source says.
Rewound_AlwaysDataLoss(w1, k, new_pos, created) ==
    LET w2 == [w1 EXCEPT !.s = k.s] IN
    IF ~k.ret
    THEN [w |-> FailWithoutAnnotation(w2, AnnotateOverSrc(w2,
                       Status("DataLoss", "Zstd-compressed stream got truncated"))),
          ret |-> FALSE]
    ELSE Reinitialized(InitializeDecompressor(w2, created), new_pos)

\* SeekBehindBuffer() after src.Seek(initial_compressed_pos_) returned `k`.
Rewound(w1, k, new_pos, created) ==
    LET w2 == [w1 EXCEPT !.s = k.s] IN
    IF ~k.ret
    THEN [w |-> FailWithoutAnnotation(w2, AnnotateOverSrc(w2, SrcStatusOrAnnotate(w2.s,
                       Status("DataLoss", "Zstd-compressed stream got truncated")))),
          ret |-> FALSE]
    ELSE Reinitialized(InitializeDecompressor(w2, created), new_pos)

\* ZstdReaderBase::SeekBehindBuffer(new_pos).
SeekBehindBuffer(w, new_pos, created) ==
    IF new_pos <= w.z.limit_pos
    THEN IF ~ok(w.z) THEN [w |-> w, ret |-> FALSE]
         ELSE Rewound([w EXCEPT !.z.truncated = FALSE, !.z.buf = <<>>, !.z.cur = 0,
                                !.z.limit_pos = 0, !.z.decompressor = NullDctx],
                      SrcSeek(w.s, RewindTarget(w.z)), new_pos, created)
    ELSE BufferedSeekBehindBuffer(w, new_pos)

\* Reader::Seek(new_pos).
Seek(w, new_pos, created) ==
    IF start_pos(w.z) <= new_pos /\ new_pos <= w.z.limit_pos
    THEN [w |-> [w EXCEPT !.z.cur = new_pos - start_pos(w.z)], ret |-> TRUE]
    ELSE SeekBehindBuffer(SyncBuffer(w), new_pos, created)

\* SizeImpl() answering whether or not the reader is ok.
SizeImpl_NotAskingOk(w) ==
    IF w.z.exact_size = Unknown
    THEN [w |-> Fail(w, Status("Unimplemented",
                     "Uncompressed size was not stored in the Zstd-compressed stream")),
          ret |-> Unknown]
    ELSE [w |-> w, ret |-> w.z.exact_size]

\* ZstdReaderBase::SizeImpl(): the size, or Unknown for nullopt.
SizeImpl(w) ==
    IF ~ok(w.z) THEN [w |-> w, ret |-> Unknown]
    ELSE IF w.z.exact_size = Unknown
    THEN [w |-> Fail(w, Status("Unimplemented",
                     "Uncompressed size was not stored in the Zstd-compressed stream")),
          ret |-> Unknown]
    ELSE [w |-> w, ret |-> w.z.exact_size]

\* ------------------------------------------------------ the state machine

\* zr: the ZstdReader; src: its source; decoded, resumed, ri: the histories
\* of a world, ri being the last ReadInternal() call of the last step; last:
\* the last step (an operation of the user and what it returned, or "grow").
VARIABLES zr, src, decoded, resumed, ri, last

\* The variables of the FdReader model (below): file: the open file
\* description and the file behind it; readers: the FdReaders over it, the
\* one first constructed and then those made by NewReader(); sink: the
\* FdWriter that CopyInternal() copies to; calls: the system calls of the
\* last step, in order; step: the last step.
VARIABLES file, readers, sink, calls, step

\* The variables of the Writer models (below): psw: the
\* PositionShiftingWriter; destination: the Writer it writes to, or the Writer
\* that is filled; fill: the call of WriteZerosSlow() or WriteCharsSlow()
\* under way. They share `calls` and `step` with the FdReader model.
VARIABLES psw, destination, fill

\* digesters: the Crc32cDigesters. pool: the Zstd decompression contexts
\* kept for reuse; decoders: the ZstdReaders that share the pool.
\* threads: the threads calling NewReader() on one reader, each with its
\* place in the function.
VARIABLES digesters, pool, decoders, threads

\* fds: the file descriptors of a process that closes them with
\* fd_internal::Close(), and the last call of it.
VARIABLES fds

zvars == <<zr, src, decoded, resumed, ri, last>>

fvars == <<file, readers, sink, calls, step>>

wvars == <<psw, destination, fill>>

dvars == <<digesters>>

pvars == <<pool, decoders>>

tvars == <<threads>>

cvars == <<fds>>

\* The variables of the models beside those of the two readers.
ovars == <<wvars, dvars, pvars, tvars, cvars>>

vars == <<zr, src, decoded, resumed, ri, last, file, readers, sink, calls, step, ovars>>

\* The value of a variable of the model that is not running.
None == "none"

\* No Writer exists.
NoWriter ==
    /\ psw = None
    /\ destination = None
    /\ fill = None

NoDigester == digesters = None

NoPool ==
    /\ pool = None
    /\ decoders = None

NoThreads == threads = None

NoDescriptors == fds = None

\* Nothing exists beside the readers.
NoOthers ==
    /\ NoWriter
    /\ NoDigester
    /\ NoPool
    /\ NoThreads
    /\ NoDescriptors

\* No FdReader exists: the ZstdReader model runs alone.
NoFdReader ==
    /\ file = None
    /\ readers = <<>>
    /\ sink = None
    /\ calls = <<>>
    /\ step = None

\* The world an operation starts in; `breaks` is whether the source breaks
\* before it: its next refill or seek fails.
World(breaks) ==
    [z |-> zr, s |-> [src EXCEPT !.broken = breaks /\ SrcOk(src)], decoded |-> decoded,
     resumed |-> resumed, ri |-> NoCall]

Becomes(w, op, ret) ==
    /\ zr' = w.z
    /\ src' = [w.s EXCEPT !.broken = FALSE]
    /\ decoded' = w.decoded
    /\ resumed' = w.resumed
    /\ ri' = w.ri
    /\ last' = [op |-> op, ret |-> ret]
    /\ UNCHANGED <<fvars, ovars>>

\* The state after an operation returned `r`.
Returns(r, op) == Becomes(r.w, op, r.ret)

\* A source the reader has not been attached to yet: one byte of it was
\* consumed by somebody else, `len` of its bytes exist.
NewSource(f, len, chunk) ==
    [data |-> <<Junk>> \o f, len |-> len, pos |-> 1, lim |-> 1, chunk |-> chunk,
     broken |-> FALSE, status |-> OkStatus]

\* ZstdReaderBase's fields as its constructor leaves them.
NewReader(growing_source, buf_len) ==
    [growing_source |-> growing_source, decompressor |-> NullDctx, just_initialized |-> FALSE,
     truncated |-> FALSE, exact_size |-> Unknown, initial_compressed_pos |-> 0,
     status |-> OkStatus, is_open |-> TRUE, limit_pos |-> 0, buf |-> <<>>, cur |-> 0,
     buf_len |-> buf_len]

\* ZstdReader(src, options): the state after construction.
Constructed(f, len, chunk, growing_source, buf_len, created) ==
    Initialize([z |-> NewReader(growing_source, buf_len), s |-> NewSource(f, len, chunk),
                decoded |-> <<>>, resumed |-> FALSE, ri |-> NoCall], created)

\* The state is the world `w`.
Starts(w) ==
    /\ zr = w.z
    /\ src = w.s
    /\ decoded = w.decoded
    /\ resumed = w.resumed
    /\ ri = w.ri
    /\ last = [op |-> "new", ret |-> TRUE]
    /\ NoFdReader
    /\ NoOthers

Init ==
    \E f \in Frames, chunk \in {"byte", "whole"}, growing_source \in BOOLEAN,
       created \in BOOLEAN :
      \E len \in 1..(Len(f) + 1) :
        Starts(Constructed(f, len, chunk, growing_source, BufLen, created))

\* Whether a read of the reader can reach the source at all; the source
\* breaking before any other read changes nothing.
Refills == ok(zr) /\ SrcOk(src) /\ zr.decompressor # NullDctx

\* reader.Pull(min_length)
DoPull ==
    \E min_length \in 1..BufLen, breaks \in BOOLEAN :
      /\ breaks => Refills
      /\ Returns(Pull(World(breaks), min_length), "Pull")

\* reader.Read(length, dest)
DoRead ==
    \E length \in 1..PositionMax, breaks \in BOOLEAN :
      /\ breaks => Refills
      /\ Returns(Read(World(breaks), length), "Read")

\* reader.Seek(new_pos)
DoSeek ==
    \E new_pos \in 0..PositionMax, created \in BOOLEAN, breaks \in BOOLEAN :
      /\ breaks => created /\ ok(zr) /\ SrcOk(src)
      /\ ~created => ok(zr) /\ new_pos < start_pos(zr)
      /\ Returns(Seek(World(breaks), new_pos, created),
                 IF new_pos < start_pos(zr) THEN "SeekBack" ELSE "Seek")

\* The state after SizeImpl() returned `r`: Size() succeeds with a size.
Sized(r) == Becomes(r.w, "Size", r.ret # Unknown)

\* reader.Size()
DoSize == Sized(SizeImpl(World(FALSE)))

\* The source grows by one byte.
SrcGrow ==
    /\ zr.growing_source
    /\ src.len < Len(src.data)
    /\ src' = [src EXCEPT !.len = @ + 1]
    /\ ri' = NoCall
    /\ last' = [op |-> "grow", ret |-> TRUE]
    /\ UNCHANGED <<zr, decoded, resumed>>
    /\ UNCHANGED <<fvars, ovars>>

Next ==
    \/ DoPull
    \/ DoRead
    \/ DoSeek
    \/ DoSize
    \/ SrcGrow

Spec == Init /\ [][Next]_vars

\* ------------------------------------------------------------ properties

\* The compressed stream the reader was constructed over.
Frame == SubSeq(src.data, zr.initial_compressed_pos + 1, Len(src.data))

\* The whole stream is in the source.
Complete == src.len = Len(src.data)

Truncated == Status("InvalidArgument", "Truncated Zstd-compressed stream")

SameError(status, other) == status.code = other.code /\ status.msg = other.msg

\* C1: when the last ReadInternal() call of a step ended because the source,
\* itself ok, could not supply another byte: without growing_source the
\* reader has failed with InvalidArgument("Truncated Zstd-compressed stream");
\* with growing_source the reader is ok, truncated is set and the call
\* returned false.
C1_SourceExhausted ==
    ri.exit = "truncated" =>
        IF zr.growing_source
        THEN ok(zr) /\ zr.truncated /\ ~ri.ret
        ELSE SameError(zr.status, Truncated)

\* A growing source ran out in the middle of a frame, after bytes were decoded.
C1_Witness ==
    /\ ri.exit = "truncated"
    /\ zr.growing_source
    /\ ok(zr)
    /\ decoded # <<>>
    /\ src.pos = src.len

\* C2: over a growing source holding (a part of) a valid frame: a call that
\* ends at the exhausted source has consumed all there was, and leaves the
\* reader ok, truncated set and the decompression context kept; a later call
\* that does not end there clears truncated; and the bytes decoded over all
\* the calls are a prefix of the frame's content, all of it once the frame
\* has ended.
C2_GrowingSourceResumes ==
    (zr.growing_source /\ ValidFrame(Frame)) =>
        /\ IsPrefix(decoded, FrameContent(Frame))
        /\ ri.exit = "truncated" =>
              /\ ok(zr) /\ zr.truncated /\ zr.decompressor # NullDctx
              /\ src.pos = src.lim
        /\ ri.exit \notin {"none", "no_decompressor", "truncated"} => ~zr.truncated
        /\ zr.truncated => zr.decompressor # NullDctx
        /\ ri.exit = "frame_end" => decoded = FrameContent(Frame) /\ ok(zr)

\* A frame that was read to its end after the source had run out in its
\* middle and grown.
C2_Witness ==
    /\ zr.growing_source
    /\ ValidFrame(Frame)
    /\ resumed
    /\ ri.exit = "frame_end"
    /\ decoded = FrameContent(Frame)
    /\ Len(decoded) >= 2

\* C3: a call that ended at the frame end has dropped the context, advanced
\* limit_pos by what it wrote, left the reader ok and returned true iff it
\* wrote at least min_length; and while the context is gone, every PullSlow()
\* and every ReadInternal() returns false and changes nothing: not the
\* source, limit_pos, the buffer or the status.
C3_FrameEnd ==
    /\ ri.exit = "frame_end" =>
          /\ zr.decompressor = NullDctx
          /\ zr.limit_pos = Len(decoded)
          /\ ok(zr)
          /\ ri.ret = ri.enough
    /\ zr.decompressor = NullDctx =>
          \A breaks \in BOOLEAN, min_length \in 1..BufLen, more \in 0..1 :
             LET w == World(breaks) IN
             /\ available(zr) < min_length => PullSlow(w, min_length) = [w |-> w, ret |-> FALSE]
             /\ ok(zr) =>
                  LET r == ReadInternal(w, min_length, min_length + more) IN
                  ~r.ret /\ r.out = <<>> /\ r.w = w

\* After a frame was decoded to its end, a Pull() that found the buffer
\* empty returned false and made no ReadInternal() call.
C3_Witness ==
    /\ zr.decompressor = NullDctx
    /\ ok(zr)
    /\ decoded = FrameContent(Frame)
    /\ decoded # <<>>
    /\ last = [op |-> "Pull", ret |-> FALSE]
    /\ ri = NoCall

C4_GeneralPathReached ==
    /\ ValidFrame(Frame)
    /\ zr.exact_size # Unknown
    /\ ~zr.growing_source
    /\ ~ri.stable
    /\ ri.exit = "frame_end"
    /\ decoded = FrameContent(Frame)
    /\ decoded # <<>>

\* The compressed bytes that exist, from where the frame starts.
Existing == SubSeq(src.data, zr.initial_compressed_pos + 1, src.len)

\* One uninterrupted decode of them, into an output as long as positions
\* allow.
WholeDecode == ZSTD_decompressStream(FreshDctx, PositionMax, Existing)

\* C5: however the source splits the compressed data into windows, the
\* reader delivers what one decode of the whole input delivers: the decoded
\* bytes are always a prefix of it, and a call that ends at the frame's end,
\* at an error of the engine, at the end of the input or at the last
\* position has delivered all of it, ends in the matching outcome and leaves
\* the source where the whole decode stops.
C5_WindowsDoNotMatter ==
    LET ref == WholeDecode
        stop == zr.initial_compressed_pos + ref.consumed
    IN  /\ IsPrefix(decoded, ref.out)
        /\ ri.exit = "frame_end" =>
              ref.result = "end" /\ decoded = ref.out /\ src.pos = stop /\ ok(zr)
        /\ ri.exit = "zstd_error" =>
              ref.result = "error" /\ decoded = ref.out /\ src.pos = stop /\ ~ok(zr)
        /\ ri.exit = "truncated" =>
              /\ ref.result = "more" /\ decoded = ref.out
              /\ src.pos = stop /\ stop = src.len
              /\ ok(zr) <=> zr.growing_source
        /\ ri.exit = "overflow" =>
              /\ ref.result = "more" /\ decoded = ref.out
              /\ src.pos = stop /\ stop < src.len
              /\ ~ok(zr)

\* A source exposing one byte at a time was decoded to the frame's end.
C5_Witness ==
    /\ src.chunk = "byte"
    /\ ~zr.growing_source
    /\ ri.exit = "frame_end"
    /\ decoded = WholeDecode.out
    /\ Len(decoded) = PositionMax

\* A source exposing everything at once was decoded to the frame's end.
C5_WholeReached ==
    /\ src.chunk = "whole"
    /\ ~zr.growing_source
    /\ ri.exit = "frame_end"
    /\ decoded = WholeDecode.out
    /\ Len(decoded) = PositionMax

\* Seek(p2); Read(n) from the world w.
SeekRead(w, p2, n) == Read(Seek(w, p2, TRUE).w, n)

\* The positions within the stream: those of the bytes one uninterrupted
\* decode delivers, and the one after them.
Positions == 0..Len(WholeDecode.out)

\* C6: from every state of an ok reader over a healthy source that stays as
\* it is, and for all positions p1 and p2 within the stream: Seek(p1);
\* Seek(p2); Read(n) returns the same bytes and the same value, ends at the
\* same position and leaves the reader ok or failed alike, as Seek(p2);
\* Read(n).  This holds over every stream that decodes to its end, where
\* Seek(p1) leaves the reader ok; over a truncated or corrupt stream the
\* bytes, the value and the position still agree whenever Seek(p1) leaves
\* the reader ok.  (Where both ways of seeking leave the reader and the
\* source in the same state, the reads are the same read.)
C6_SeekSeekRead ==
    (ok(zr) /\ SrcOk(src)) =>
        LET whole == WholeDecode.result = "end"
            within == Positions
            direct == [p2 \in within |-> Seek(World(FALSE), p2, TRUE).w]
        IN  \A p1 \in within :
               LET first == Seek(World(FALSE), p1, TRUE).w IN
               /\ whole => ok(first.z)
               /\ ok(first.z) =>
                     \A p2 \in within :
                        LET second == Seek(first, p2, TRUE).w IN
                        \/ second = direct[p2]
                        \/ \A n \in 1..PositionMax :
                              LET a == Read(second, n)
                                  b == Read(direct[p2], n)
                              IN  /\ a.out = b.out
                                  /\ a.ret = b.ret
                                  /\ pos(a.w.z) = pos(b.w.z)
                                  /\ whole => (ok(a.w.z) <=> ok(b.w.z))

\* The reader was rewound to a position after the first byte, and a seek
\* forwards followed by a seek back reads the bytes of the frame from there.
C6_Witness ==
    /\ last = [op |-> "SeekBack", ret |-> TRUE]
    /\ ok(zr) /\ SrcOk(src)
    /\ ValidFrame(Frame) /\ Complete
    /\ pos(zr) = 1
    /\ Len(FrameContent(Frame)) = PositionMax
    /\ LET first == Seek(World(FALSE), PositionMax, TRUE)
           r == SeekRead(first.w, 1, 2)
       IN  /\ first.ret /\ ok(first.w.z)
           /\ r.ret /\ r.out = SubSeq(FrameContent(Frame), 2, 3) /\ pos(r.w.z) = 3

SizeNotStored ==
    Status("Unimplemented", "Uncompressed size was not stored in the Zstd-compressed stream")

\* C7 as stated: Size() succeeds iff exact_size is known, and otherwise the
\* reader has failed with Unimplemented.
C7_SizeIffExactSize ==
    last.op = "Size" =>
        /\ last.ret <=> zr.exact_size # Unknown
        /\ ~last.ret => zr.status.code = "Unimplemented"

\* C7, amended: on an ok reader Size() succeeds iff exact_size is known, and
\* otherwise fails the reader with Unimplemented; on a failed reader Size()
\* fails whether or not exact_size is known, and the status stays what it
\* was.  Size() changes nothing else.
C7_SizeOfOkReader ==
    [][last'.op = "Size" =>
          /\ IF ok(zr)
             THEN /\ last'.ret <=> zr.exact_size # Unknown
                  /\ last'.ret => zr' = zr
                  /\ ~last'.ret =>
                        /\ SameError(zr'.status, SizeNotStored)
                        /\ zr' = [zr EXCEPT !.status = zr'.status]
             ELSE ~last'.ret /\ zr' = zr
          /\ src' = src]_vars

\* Size() has failed an ok reader whose frame does not declare its size.
C7_Witness ==
    /\ last = [op |-> "Size", ret |-> FALSE]
    /\ SameError(zr.status, SizeNotStored)
    /\ zr.exact_size = Unknown
    /\ zr.decompressor # NullDctx

\* Size() of an ok reader has succeeded.
C7_SizeSucceeded ==
    last = [op |-> "Size", ret |-> TRUE] /\ ok(zr) /\ zr.exact_size = PositionMax

\* Size() of a failed reader that knows the size has failed.
C7_FailedReaderReached ==
    /\ last = [op |-> "Size", ret |-> FALSE]
    /\ zr.exact_size # Unknown
    /\ zr.status.code = "InvalidArgument"

\* The size the header of a frame declares, for a source holding `input`
\* from its position on: the declared content size, 0 for a skippable frame,
\* Unknown when the two header bytes are not there or are no header.
HeaderSize(input) ==
    IF Len(input) < 2 \/ input[2][1] # "F" THEN Unknown
    ELSE IF input[1] = SkipMagic THEN 0
    ELSE IF input[1] = Magic THEN input[2][2]
    ELSE Unknown

\* C8: each (re)initialization of the decompressor sets exact_size from the
\* frame header at the source's position: the declared size, 0 for a
\* skippable frame, unknown when the header cannot be read or parsed, or
\* declares no size; the source does not move, so it is at
\* initial_compressed_pos, with a fresh context, when decompression starts.
C8_ExactSizeFromHeader ==
    /\ zr.just_initialized =>
          /\ src.pos = zr.initial_compressed_pos
          /\ zr.decompressor = FreshDctx
          /\ zr.exact_size \in {Unknown, HeaderSize(Existing)}
          /\ (last.op \in {"new", "SeekBack"} /\ SrcOk(src)) =>
                zr.exact_size = HeaderSize(Existing)
    /\ \A breaks \in BOOLEAN :
          LET w == World(breaks)
              r == InitializeDecompressor(w, TRUE)
              here == SubSeq(src.data, src.pos + 1, src.len)
          IN  /\ r.s.pos = src.pos
              /\ r.z.decompressor = FreshDctx /\ r.z.just_initialized
              /\ r.z.exact_size \in {Unknown, HeaderSize(here)}
              /\ SrcOk(r.s) => r.z.exact_size = HeaderSize(here)
              /\ ~SrcOk(r.s) => r.z.exact_size = Unknown

\* A rewind has re-initialized the decompressor over a frame that declares
\* its size.
C8_Witness ==
    /\ last = [op |-> "SeekBack", ret |-> TRUE]
    /\ zr.just_initialized
    /\ zr.exact_size = PositionMax
    /\ src.pos = zr.initial_compressed_pos
    /\ src.chunk = "byte"

\* The reader was constructed over a skippable frame.
C8_SkippableReached ==
    /\ last.op = "new"
    /\ zr.just_initialized
    /\ IsSkippable(Frame)
    /\ Frame[2][2] = 1
    /\ zr.exact_size = 0

ReadingTruncated == "reading truncated Zstd-compressed stream"

\* C9 as stated: the failure status of an open reader carries "at
\* uncompressed byte", and after a mid-stream end of a source that does not
\* grow it carries "reading truncated Zstd-compressed stream".
C9_TruncatedAnnotation ==
    (~ok(zr) /\ zr.is_open) =>
        /\ HasNote(zr.status, "at uncompressed byte")
        /\ (ri.exit = "truncated" /\ ~zr.growing_source) => HasNote(zr.status, ReadingTruncated)

\* C9, amended: the failure status of an open reader carries "at
\* uncompressed byte".  The failure at a mid-stream end of a source that
\* does not grow is the Truncated error without "reading truncated
\* Zstd-compressed stream", because `truncated` is set only after the reader
\* has failed; what carries that annotation is a status annotated while
\* `truncated` is set, and among the reader's own failures only that of
\* Size() over a growing source.
C9_AnnotatedWhileTruncated ==
    /\ (~ok(zr) /\ zr.is_open) => HasNote(zr.status, "at uncompressed byte")
    /\ (ri.exit = "truncated" /\ ~zr.growing_source) =>
          /\ SameError(zr.status, Truncated)
          /\ ~HasNote(zr.status, ReadingTruncated)
          /\ zr.truncated
    /\ HasNote(zr.status, ReadingTruncated) =>
          zr.growing_source /\ zr.truncated /\ SameError(zr.status, SizeNotStored)
    /\ zr.is_open =>
          (HasNote(AnnotateStatusImpl(World(FALSE), Status("DataLoss", "")), ReadingTruncated)
              <=> zr.truncated)

\* A source that does not grow ended mid-stream, after bytes were decoded.
C9_Witness ==
    /\ ri.exit = "truncated"
    /\ ~zr.growing_source
    /\ ~ok(zr)
    /\ zr.is_open
    /\ decoded # <<>>
    /\ zr.truncated

\* A failure status carrying "reading truncated Zstd-compressed stream".
C9_AnnotationReached == HasNote(zr.status, ReadingTruncated) /\ last.op = "Size"

ZstdFailed == Status("InvalidArgument", "ZSTD_decompressStream() failed")

\* C10: a ReadInternal() call in which the engine reports an error fails the
\* reader with InvalidArgument("ZSTD_decompressStream() failed"), leaves
\* limit_pos advanced by the bytes produced, and returns true iff at least
\* min_length bytes were produced.
C10_ZstdError ==
    ri.exit = "zstd_error" =>
        /\ SameError(zr.status, ZstdFailed)
        /\ zr.limit_pos = Len(decoded)
        /\ ri.ret <=> ri.enough

\* The call returned true and the reader is failed.
C10_Witness ==
    /\ ri.exit = "zstd_error"
    /\ ri.ret
    /\ ~ok(zr)
    /\ decoded # <<>>
    /\ zr.limit_pos = Len(decoded)

\* The call returned false and the reader is failed.
C10_FalseReached == ri.exit = "zstd_error" /\ ~ri.ret /\ ~ri.enough /\ ~ok(zr)

\* ======================================================================
\* FdReader (riegeli/bytes/fd_reader.cc): a buffered reader over a file
\* descriptor.  The model is of the Unix build.  The buffer of
\* BufferedReader is kept empty: every read of the user is a call of
\* ReadInternal() to the user's array, every seek one of SeekBehindBuffer(),
\* so that pos(), start_pos() and limit_pos() are one number.

\* The longest file, in bytes.
MaxFile == 2

\* One step is disturbed at one of its first MaxCalls system calls at most:
\* the call fails, or transfers one byte only, or is interrupted by a signal,
\* up to MaxEintr times in a row.  Every other call succeeds in full.
MaxCalls == 4

MaxEintr == 1

\* std::numeric_limits<fd_internal::Offset>::max(), scaled down.
OffsetMax == 3

\* std::numeric_limits<ssize_t>::max(), scaled down.
SsizeMax == 3

\* size_t{1} << 30, the most one read() asks for, scaled down.
ReadChunkMax == 2

\* ------------------------------------------------------------ the kernel

\* The byte at offset i - 1 of the file is i.
FileBytes(n) == [i \in 1..n |-> i]

\* What a descriptor is open on: a regular file; a pipe, which cannot seek;
\* a file of "/proc" that reports its offset and cannot seek to its end.
Kinds == {"file", "pipe", "proc"}

\* The open file description: the file's bytes, the file offset, the kind.
OpenFile(size, offset, kind) == [data |-> FileBytes(size), offset |-> offset, kind |-> kind]

\* What a system call does when the plan says nothing about it.
Succeeds == "ok"

\* A plan: the calls of a step from the `at`-th on, `times` of them, have
\* the outcome `outcome`; the call `fails`, when there is one, fails.
Disturbed(at, outcome, times) ==
    [at |-> at, outcome |-> outcome, times |-> times, fails |-> 0]

\* The plan `plan` with the call `n` failing as well.
ThenFails(plan, n) == [plan EXCEPT !.fails = n]

Undisturbed == Disturbed(0, Succeeds, 0)

\* The plans for a step that makes `n` calls when it is not disturbed; a
\* call after these is made by no plan.  Failures are the plans for the calls
\* that are not interrupted and transfer no bytes.
Failures(n) == {Undisturbed} \cup {Disturbed(at, "fail", 1) : at \in 1..Min(n, MaxCalls)}

Plans(n) ==
    Failures(n) \cup {Disturbed(at, "short", 1) : at \in 1..Min(n, MaxCalls)}
                \cup {ThenFails(Disturbed(at, "short", 1), fails) :
                         at \in 1..Min(n, MaxCalls), fails \in 2..MaxCalls}
                \cup {Disturbed(at, "EINTR", times) :
                         at \in 1..Min(n, MaxCalls), times \in 1..MaxEintr}

\* The outcome chosen for the next system call of the world `w`.
NextOutcome(w) ==
    IF Len(w.calls) + 1 = w.plan.fails THEN "fail"
    ELSE IF Len(w.calls) + 1 >= w.plan.at /\ Len(w.calls) + 1 < w.plan.at + w.plan.times
    THEN w.plan.outcome
    ELSE Succeeds

\* The calls an outcome is an outcome of.
Takes(call, outcome) ==
    IF outcome = "EINTR" THEN call \in {"open", "read", "pread", "copy_file_range"}
    ELSE IF outcome = "short" THEN call \in {"read", "pread", "copy_file_range"}
    ELSE TRUE

\* The plan of the world `w` happened in full: only such plans are told
\* apart.
Happened(w) ==
    /\ \A n \in w.plan.at..(w.plan.at + w.plan.times - 1) :
         n <= Len(w.calls) /\ Takes(w.calls[n].call, w.plan.outcome)
    /\ w.plan.fails # 0 => w.plan.fails > w.plan.at /\ w.plan.fails <= Len(w.calls)

\* The system call `call(args)` returned `ret`, setting errno on failure.
Called(w, call, args, ret, errno) ==
    [w EXCEPT !.calls = Append(@, [call |-> call, args |-> args, ret |-> ret,
                                   errno |-> errno]),
              !.ret = ret,
              !.errno = errno]

\* The bytes of the file from `offset`, `length` of them at most.
BytesAt(k, offset, length) ==
    SubSeq(k.data, offset + 1, Min(offset + length, Len(k.data)))

\* How many bytes a read of `length` bytes at `offset` transfers.
Transfers(w, offset, length) ==
    IF NextOutcome(w) = "short" THEN Len(BytesAt(w.k, offset, 1))
    ELSE Len(BytesAt(w.k, offset, length))

\* The array `dest` with `bytes` stored from its index `at` on.
Stored(dest, at, bytes) ==
    [i \in 1..Max(Len(dest), at + Len(bytes)) |->
        IF i > at /\ i <= at + Len(bytes) THEN bytes[i - at]
        ELSE IF i <= Len(dest) THEN dest[i] ELSE 0]

\* open(filename, mode, 0666)
SysOpen(w, filename) ==
    IF NextOutcome(w) = "EINTR" THEN Called(w, "open", <<filename>>, -1, "EINTR")
    ELSE IF NextOutcome(w) = "fail" THEN Called(w, "open", <<filename>>, -1, "ENOENT")
    ELSE [Called(w, "open", <<filename>>, 3, "") EXCEPT !.k.offset = 0]

\* Where lseek(offset, whence) moves the file offset to.
SeekTarget(k, offset, whence) ==
    IF whence = "SEEK_SET" THEN offset
    ELSE IF whence = "SEEK_CUR" THEN k.offset + offset
    ELSE Len(k.data) + offset

\* fd_internal::LSeek(src, offset, whence)
LSeek(w, offset, whence) ==
    IF w.k.kind = "pipe" THEN Called(w, "lseek", <<offset, whence>>, -1, "ESPIPE")
    ELSE IF w.k.kind = "proc" /\ whence = "SEEK_END"
    THEN Called(w, "lseek", <<offset, whence>>, -1, "EINVAL")
    ELSE IF NextOutcome(w) = "fail" THEN Called(w, "lseek", <<offset, whence>>, -1, "EIO")
    ELSE [Called(w, "lseek", <<offset, whence>>, SeekTarget(w.k, offset, whence), "")
             EXCEPT !.k.offset = SeekTarget(w.k, offset, whence)]

\* fd_internal::FStat(src, &stat_info): the result is st_size.
FStat(w) ==
    IF NextOutcome(w) = "fail" THEN Called(w, "fstat", <<>>, -1, "EIO")
    ELSE Called(w, "fstat", <<>>, Len(w.k.data), "")

\* read(src, dest + at, length)
SysRead(w, at, length) ==
    IF NextOutcome(w) = "EINTR" THEN Called(w, "read", <<at, length>>, -1, "EINTR")
    ELSE IF NextOutcome(w) = "fail" THEN Called(w, "read", <<at, length>>, -1, "EIO")
    ELSE [Called(w, "read", <<at, length>>, Transfers(w, w.k.offset, length), "")
             EXCEPT !.k.offset = @ + Transfers(w, w.k.offset, length),
                    !.dest = Stored(@, at, BytesAt(w.k, w.k.offset,
                                                   Transfers(w, w.k.offset, length)))]

\* pread(src, dest + at, length, offset)
SysPread(w, at, length, offset) ==
    IF NextOutcome(w) = "EINTR" THEN Called(w, "pread", <<at, length, offset>>, -1, "EINTR")
    ELSE IF w.k.kind = "pipe" THEN Called(w, "pread", <<at, length, offset>>, -1, "ESPIPE")
    ELSE IF NextOutcome(w) = "fail" THEN Called(w, "pread", <<at, length, offset>>, -1, "EIO")
    ELSE [Called(w, "pread", <<at, length, offset>>, Transfers(w, offset, length), "")
             EXCEPT !.dest = Stored(@, at, BytesAt(w.k, offset, Transfers(w, offset, length)))]

\* ------------------------------------------------------------- FdReader

\* A world `w` of the FdReader model is the reader `w.r`, the open file
\* description `w.k` and the FdWriter `w.d` of a copy; `w.plan` chooses the
\* outcomes of the system calls to come, `w.calls` are those made, `w.ret`
\* and `w.errno` are what the last one returned, `w.dest` is the array the
\* caller reads into and `w.returned` what the operation returned.
\*
\* The reader's fields: filename (its path components), has_independent_pos,
\* supports_random_access, random_access_status, growing_source; of
\* BufferedReader: exact_size (Unknown for nullopt), limit_pos,
\* buffer_options; of Object: status, is_open; owns_fd: whether the reader
\* closes the descriptor (OwnedFd) or not (UnownedFd).

\* absl::StartsWith(filename(), "/sys/")
StartsWithSys(filename) == Len(filename) >= 2 /\ filename[1] = "sys"

\* absl::ErrnoToStatus(error_number, message)
ErrnoToStatus(error_number, message) == Status(<<"errno", error_number>>, message)

\* FailedOperationStatus(operation), of the errno of the last system call.
FailedOperationStatus(w, operation) == ErrnoToStatus(w.errno, <<operation, " failed">>)

\* FdReaderBase::AnnotateStatusImpl() over BufferedReader's.
FdAnnotateStatusImpl(r, status) ==
    LET named == IF r.filename # <<>> THEN Annotate(status, "reading", r.filename)
                 ELSE status
    IN  IF r.is_open THEN Annotate(named, "at byte", r.limit_pos) ELSE named

\* Object::Fail(): the first failure is kept.
FdFail(w, status) ==
    IF ok(w.r) THEN [w EXCEPT !.r.status = FdAnnotateStatusImpl(w.r, status)] ELSE w

\* A bug to tell apart: a failed system call is taken to mean that the
\* file cannot be seeked.
FdFailOperation_NoMoreSeeking(w, operation) ==
    [FdFail(w, FailedOperationStatus(w, operation)) EXCEPT
       !.r.supports_random_access = FALSE]

FdFailOperation(w, operation) == FdFail(w, FailedOperationStatus(w, operation))

PositionOverflow == Status("ResourceExhausted", "Reader position overflow")

\* Reader::FailOverflow()
FdFailOverflow(w) == FdFail(w, PositionOverflow)

set_limit_pos(w, limit_pos) == [w EXCEPT !.r.limit_pos = limit_pos]

set_exact_size(w, exact_size) == [w EXCEPT !.r.exact_size = exact_size]

BothPositions ==
    Status("InvalidArgument",
           "FdReaderBase::Options::assumed_pos() and independent_pos() must not be both set")

AssumedPosExcludes ==
    Status("Unimplemented", "FdReaderBase::Options::assumed_pos() excludes random access")

SysFilesDoNot == Status("Unimplemented", "/sys files do not support random access")

\* InitializePos() with assumed_pos: no system call, no random access.
AssumedPos(w, assumed_pos, independent_pos) ==
    IF independent_pos # Unknown THEN FdFail(w, BothPositions)
    ELSE IF assumed_pos > OffsetMax THEN FdFailOverflow(w)
    ELSE [set_limit_pos(w, assumed_pos) EXCEPT !.r.random_access_status = AssumedPosExcludes]

\* A bug to tell apart: the position is taken, the mode is not entered.
IndependentPos_SharedMode(w, independent_pos) ==
    IF independent_pos > OffsetMax THEN FdFailOverflow(w)
    ELSE [set_limit_pos(w, independent_pos) EXCEPT !.r.supports_random_access = TRUE]

\* InitializePos() with independent_pos alone.
IndependentPos(w, independent_pos) ==
    IF independent_pos > OffsetMax
    THEN FdFailOverflow([w EXCEPT !.r.has_independent_pos = TRUE])
    ELSE [set_limit_pos(w, independent_pos) EXCEPT !.r.has_independent_pos = TRUE,
                                                    !.r.supports_random_access = TRUE]

\* After the seek back to limit_pos(); `file_size` is what the seek to the
\* end returned.
Restored(w, file_size) ==
    IF w.ret < 0 THEN FdFailOperation(w, "lseek()")
    ELSE IF ~w.r.growing_source THEN set_exact_size(w, file_size)
    ELSE w

\* A bug to tell apart: the descriptor is left at the end of the file.
ProbedEnd_NoSeekBack(w) ==
    IF w.ret < 0
    THEN [w EXCEPT !.r.random_access_status = FailedOperationStatus(w, "lseek()")]
    ELSE IF ~w.r.growing_source
    THEN set_exact_size([w EXCEPT !.r.supports_random_access = TRUE], w.ret)
    ELSE [w EXCEPT !.r.supports_random_access = TRUE]

\* After LSeek(src, 0, SEEK_END).
ProbedEnd(w) ==
    IF w.ret < 0
    THEN [w EXCEPT !.r.random_access_status = FailedOperationStatus(w, "lseek()")]
    ELSE Restored(LSeek([w EXCEPT !.r.supports_random_access = TRUE], w.r.limit_pos,
                        "SEEK_SET"),
                  w.ret)

\* A bug to tell apart: the filename is not looked at.
CheckRandomAccess_AnyName(w) == ProbedEnd(LSeek(w, 0, "SEEK_END"))

\* "Check if random access is supported."
CheckRandomAccess(w) ==
    IF StartsWithSys(w.r.filename)
    THEN [w EXCEPT !.r.random_access_status = SysFilesDoNot]
    ELSE ProbedEnd(LSeek(w, 0, "SEEK_END"))

\* A bug to tell apart: a failing seek leaves no reason behind.
ProbedCur_NoReason(w) ==
    IF w.ret < 0 THEN w ELSE CheckRandomAccess(set_limit_pos(w, w.ret))

\* After LSeek(src, 0, SEEK_CUR).
ProbedCur(w) ==
    IF w.ret < 0
    THEN [w EXCEPT !.r.random_access_status = FailedOperationStatus(w, "lseek()")]
    ELSE CheckRandomAccess(set_limit_pos(w, w.ret))

\* FdReaderBase::InitializePos(src, assumed_pos, independent_pos)
InitializePos(w, assumed_pos, independent_pos) ==
    IF assumed_pos # Unknown THEN AssumedPos(w, assumed_pos, independent_pos)
    ELSE IF independent_pos # Unknown THEN IndependentPos(w, independent_pos)
    ELSE ProbedCur(LSeek(w, 0, "SEEK_CUR"))

\* Object::Reset(kClosed) of the reader.
ResetClosed(w) == [w EXCEPT !.r.is_open = FALSE, !.r.status = OkStatus]

RECURSIVE OpenFd(_)

\* A bug to tell apart: an interrupted open() is an error like any other.
Opened_NoRestart(w) ==
    IF w.ret < 0 THEN FdFailOperation(ResetClosed(w), "open()") ELSE w

\* After open(): interrupted, it is issued again.
Opened(w) ==
    IF w.ret < 0
    THEN IF w.errno = "EINTR" THEN OpenFd(w) ELSE FdFailOperation(ResetClosed(w), "open()")
    ELSE w

\* FdReaderBase::OpenFd(filename, mode); the descriptor is w.ret.
OpenFd(w) == Opened(SysOpen(w, w.r.filename))

\* FdReader(filename, options): Initialize(filename, options).
InitializeByName(w, assumed_pos, independent_pos) ==
    IF w.ret < 0 THEN w ELSE InitializePos(w, assumed_pos, independent_pos)

\* FdReaderBase's fields as its constructor leaves them.
NewFdReader(filename, growing_source, owns_fd) ==
    [filename |-> filename, has_independent_pos |-> FALSE, supports_random_access |-> FALSE,
     random_access_status |-> OkStatus, growing_source |-> growing_source,
     exact_size |-> Unknown, limit_pos |-> 0, buffer_options |-> "default",
     status |-> OkStatus, is_open |-> TRUE, owns_fd |-> owns_fd]

\* No FdWriter; a null pointer to a Reader.
NoSink == [null |-> TRUE]

NullReader == [null |-> TRUE]

\* The world of the reader `r` over the open file `k`, before an operation.
FdWorld(k, r, d, plan) ==
    [k |-> k, r |-> r, d |-> d, plan |-> plan, calls |-> <<>>, ret |-> 0, errno |-> "",
     dest |-> <<>>, returned |-> TRUE]

\* FdReader(src, options) over an open descriptor, or FdReader(filename,
\* options) when `by_name`.
FdConstructed(k, filename, growing_source, by_name, assumed_pos, independent_pos, plan) ==
    IF by_name
    THEN InitializeByName(OpenFd(FdWorld(k, NewFdReader(filename, growing_source, TRUE),
                                         NoSink, plan)),
                          assumed_pos, independent_pos)
    ELSE InitializePos(FdWorld(k, NewFdReader(filename, growing_source, TRUE), NoSink, plan),
                       assumed_pos, independent_pos)

\* The operation returns `value`.
Returning(w, value) == [w EXCEPT !.returned = value]

MoveLimitPos(w, length) == [w EXCEPT !.r.limit_pos = @ + length]

\* A bug to tell apart: the bound of the file offset is not applied.
LengthToRead_PastOffsetMax(r, max_length) == Min(max_length, Min(SsizeMax, ReadChunkMax))

\* length_to_read of ReadInternal().
LengthToRead(r, max_length) ==
    Min(Min(max_length, OffsetMax - r.limit_pos), Min(SsizeMax, ReadChunkMax))

\* A bug to tell apart: a reader in independent-position mode uses read().
IssueRead_SharedOffset(w, at, length_to_read) == SysRead(w, at, length_to_read)

\* has_independent_pos_ ? pread(src, dest, length_to_read, limit_pos())
\*                      : read(src, dest, length_to_read)
IssueRead(w, at, length_to_read) ==
    IF w.r.has_independent_pos THEN SysPread(w, at, length_to_read, w.r.limit_pos)
    ELSE SysRead(w, at, length_to_read)

\* The end of the file was read: a file that does not grow has this size.
EndOfFile(w) ==
    Returning(IF ~w.r.growing_source THEN set_exact_size(w, w.r.limit_pos) ELSE w, FALSE)

RECURSIVE FdReadLoop(_, _, _, _)

RECURSIVE Transferred(_, _, _, _, _)

\* A bug to tell apart: a short read ends the call.
Transferred_NoAccumulation(w, min_length, max_length, at, length_to_read) ==
    IF w.ret < 0
    THEN IF w.errno = "EINTR"
         THEN Transferred(IssueRead(w, at, length_to_read), min_length, max_length, at,
                          length_to_read)
         ELSE Returning(FdFailOperation(w, IF w.r.has_independent_pos THEN "pread()"
                                           ELSE "read()"), FALSE)
    ELSE IF w.ret = 0 THEN EndOfFile(w)
    ELSE Returning(MoveLimitPos(w, w.ret), w.ret >= min_length)

\* A bug to tell apart: an interrupted read fails the reader.
Transferred_NoRestart(w, min_length, max_length, at, length_to_read) ==
    IF w.ret < 0
    THEN Returning(FdFailOperation(w, IF w.r.has_independent_pos THEN "pread()"
                                      ELSE "read()"), FALSE)
    ELSE IF w.ret = 0 THEN EndOfFile(w)
    ELSE IF w.ret >= min_length THEN Returning(MoveLimitPos(w, w.ret), TRUE)
    ELSE FdReadLoop(MoveLimitPos(w, w.ret), min_length - w.ret, max_length - w.ret,
                    at + w.ret)

\* After read() or pread() of `length_to_read` bytes into dest + at.
Transferred(w, min_length, max_length, at, length_to_read) ==
    IF w.ret < 0
    THEN IF w.errno = "EINTR"
         THEN Transferred(IssueRead(w, at, length_to_read), min_length, max_length, at,
                          length_to_read)
         ELSE Returning(FdFailOperation(w, IF w.r.has_independent_pos THEN "pread()"
                                           ELSE "read()"), FALSE)
    ELSE IF w.ret = 0 THEN EndOfFile(w)
    ELSE IF w.ret >= min_length THEN Returning(MoveLimitPos(w, w.ret), TRUE)
    ELSE FdReadLoop(MoveLimitPos(w, w.ret), min_length - w.ret, max_length - w.ret,
                    at + w.ret)

\* The loop of ReadInternal(); `at` is how far dest has moved.
FdReadLoop(w, min_length, max_length, at) ==
    IF w.r.limit_pos >= OffsetMax THEN Returning(FdFailOverflow(w), FALSE)
    ELSE Transferred(IssueRead(w, at, LengthToRead(w.r, max_length)), min_length,
                     max_length, at, LengthToRead(w.r, max_length))

\* FdReaderBase::ReadInternal(min_length, max_length, dest)
FdReadInternal(w, min_length, max_length) == FdReadLoop(w, min_length, max_length, 0)

\* After LSeek(src, new_pos, SEEK_SET).
Sought(w, new_pos) ==
    IF w.ret < 0 THEN Returning(FdFailOperation(w, "lseek()"), FALSE)
    ELSE Returning(set_limit_pos(w, new_pos), TRUE)

\* A bug to tell apart: every seek moves the descriptor's offset.
SeekInternal_AlwaysLSeek(w, new_pos) == Sought(LSeek(w, new_pos, "SEEK_SET"), new_pos)

\* FdReaderBase::SeekInternal(src, new_pos)
SeekInternal(w, new_pos) ==
    IF ~w.r.has_independent_pos THEN Sought(LSeek(w, new_pos, "SEEK_SET"), new_pos)
    ELSE Returning(set_limit_pos(w, new_pos), TRUE)

\* SeekWithin() seeking to new_pos though the file ends before it.
SeekWithin_PastEnd(w, new_pos, file_size) == SeekInternal(w, new_pos)

\* Seeking forwards with the size of the file known.
SeekWithin(w, new_pos, file_size) ==
    IF new_pos > file_size THEN Returning(SeekInternal(w, file_size), FALSE)
    ELSE SeekInternal(w, new_pos)

\* After FStat() of SeekBehindBuffer().
SeekStatted(w, new_pos) ==
    IF w.ret < 0 THEN Returning(FdFailOperation(w, "fstat()"), FALSE)
    ELSE SeekWithin(IF ~w.r.growing_source THEN set_exact_size(w, w.ret) ELSE w, new_pos,
                    w.ret)

RECURSIVE FdSkipForwards(_, _)

\* After a read of the skip: on to new_pos unless the read returned false.
FdSkipped(w, new_pos) ==
    IF w.r.limit_pos >= new_pos \/ ~w.returned THEN Returning(w, w.r.limit_pos >= new_pos)
    ELSE FdSkipForwards(w, new_pos)

\* BufferedReader::SeekBehindBuffer(new_pos) forwards: the bytes up to
\* new_pos are read and dropped.
FdSkipForwards(w, new_pos) ==
    FdSkipped([FdReadInternal(w, 1, new_pos - w.r.limit_pos) EXCEPT !.dest = <<>>], new_pos)

\* FdReaderBase::SeekBehindBuffer(new_pos), new_pos # limit_pos().
FdSeekBehindBuffer(w, new_pos) ==
    IF ~w.r.supports_random_access
    THEN IF new_pos < w.r.limit_pos THEN Returning(FdFail(w, w.r.random_access_status), FALSE)
         ELSE IF ~ok(w.r) THEN Returning(w, FALSE)
         ELSE FdSkipForwards(w, new_pos)
    ELSE IF ~ok(w.r) THEN Returning(w, FALSE)
    ELSE IF new_pos > w.r.limit_pos
    THEN IF w.r.exact_size # Unknown THEN SeekWithin(w, new_pos, w.r.exact_size)
         ELSE SeekStatted(FStat(w), new_pos)
    ELSE SeekInternal(w, new_pos)

\* After FStat() of SizeImpl().
SizeStatted(w) ==
    IF w.ret < 0 THEN Returning(FdFailOperation(w, "fstat()"), Unknown)
    ELSE Returning(IF ~w.r.growing_source THEN set_exact_size(w, w.ret) ELSE w, w.ret)

\* A bug to tell apart: the size of a growing file is kept too.
FdSizeImpl_KeepsGrowingSize(w) ==
    IF ~ok(w.r) THEN Returning(w, Unknown)
    ELSE IF w.r.exact_size # Unknown THEN Returning(w, w.r.exact_size)
    ELSE IF ~w.r.supports_random_access
    THEN Returning(FdFail(w, w.r.random_access_status), Unknown)
    ELSE Returning(set_exact_size(FStat(w), FStat(w).ret), FStat(w).ret)

\* FdReaderBase::SizeImpl(); Unknown for nullopt.
FdSizeImpl(w) ==
    IF ~ok(w.r) THEN Returning(w, Unknown)
    ELSE IF w.r.exact_size # Unknown THEN Returning(w, w.r.exact_size)
    ELSE IF ~w.r.supports_random_access
    THEN Returning(FdFail(w, w.r.random_access_status), Unknown)
    ELSE SizeStatted(FStat(w))

\* FdReaderBase::SupportsNewReader()
SupportsNewReader(r) == r.supports_random_access

\* The reader NewReaderImpl() constructs, after set_exact_size().
NewReaderOver(w, initial_pos) ==
    set_exact_size(InitializePos(FdWorld(w.k,
                                         [NewFdReader(w.r.filename, w.r.growing_source, FALSE)
                                             EXCEPT !.buffer_options = w.r.buffer_options],
                                         NoSink, Undisturbed),
                                 Unknown, initial_pos),
                   w.r.exact_size).r

\* A bug to tell apart: the new reader starts without the known size.
NewReaderImpl_SizeForgotten(w, initial_pos) ==
    IF ~SupportsNewReader(w.r) THEN Returning(FdFail(w, w.r.random_access_status), NullReader)
    ELSE IF ~ok(w.r) THEN Returning(w, NullReader)
    ELSE Returning(w, [NewReaderOver(w, initial_pos) EXCEPT !.exact_size = Unknown])

\* FdReaderBase::NewReaderImpl(initial_pos); NullReader for nullptr.
NewReaderImpl(w, initial_pos) ==
    IF ~SupportsNewReader(w.r) THEN Returning(FdFail(w, w.r.random_access_status), NullReader)
    ELSE IF ~ok(w.r) THEN Returning(w, NullReader)
    ELSE Returning(w, NewReaderOver(w, initial_pos))

\* -------------------------------------------------------- CopyInternal

\* The FdWriter `w.d` of a copy: `buf` are the bytes written to it and not
\* flushed yet, start_pos the position of the first of them in its file,
\* `data` the bytes of its file, `offset` its descriptor's file offset.
NewSink(buf, written, has_independent_pos) ==
    [buf |-> buf, start_pos |-> written, has_independent_pos |-> has_independent_pos,
     status |-> OkStatus, data |-> [i \in 1..written |-> 0],
     offset |-> IF has_independent_pos THEN 0 ELSE written]

\* The bytes of the FdWriter's file with those still in its buffer.
SinkContent(d) == Stored(d.data, d.start_pos, d.buf)

\* The FdWriter's file takes `bytes` at the writer's position.
SinkWritten(d, bytes) ==
    [d EXCEPT !.data = Stored(@, d.start_pos, bytes),
              !.start_pos = @ + Len(bytes),
              !.offset = IF d.has_independent_pos THEN @ ELSE @ + Len(bytes)]

\* fd_writer->Flush(FlushType::kFromObject): the buffer goes to the file.
SinkFlush(w) ==
    IF ~ok(w.d) THEN Called(w, "Flush", <<>>, 0, "")
    ELSE IF NextOutcome(w) = "fail"
    THEN [Called(w, "Flush", <<>>, 0, "EIO") EXCEPT
             !.d.status = ErrnoToStatus("EIO", <<"write()", " failed">>)]
    ELSE [Called(w, "Flush", <<>>, 1, "") EXCEPT
             !.d = [SinkWritten(@, @.buf) EXCEPT !.buf = <<>>]]

\* fd_writer->FailOverflow()
SinkFailOverflow(w) ==
    [w EXCEPT !.d.status = Status("ResourceExhausted", "Writer position overflow")]

\* dest.Write(bytes) of the generic copy: the bytes are buffered.
SinkWrite(w, bytes) == [w EXCEPT !.d.buf = @ \o bytes]

\* Where copy_file_range() reads from and writes to: the offset given, or
\* the descriptor's own.
CopySource(w, src_offset) == IF src_offset = Unknown THEN w.k.offset ELSE src_offset

CopyTarget(w, dest_offset) == IF dest_offset = Unknown THEN w.d.offset ELSE dest_offset

\* The state after copy_file_range() copied `n` bytes.
RangeCopied(w, src_offset, dest_offset, n) ==
    [w EXCEPT !.k.offset = IF src_offset = Unknown THEN @ + n ELSE @,
              !.d.offset = IF dest_offset = Unknown THEN @ + n ELSE @,
              !.d.data = Stored(@, CopyTarget(w, dest_offset),
                                BytesAt(w.k, CopySource(w, src_offset), n))]

\* copy_file_range(src, src_offset, dest, dest_offset, length, 0); an
\* offset of Unknown is a null pointer.
CopyFileRange(w, src_offset, dest_offset, length) ==
    IF NextOutcome(w) = "EINTR"
    THEN Called(w, "copy_file_range", <<src_offset, dest_offset, length>>, -1, "EINTR")
    ELSE IF w.k.kind # "file"
    THEN Called(w, "copy_file_range", <<src_offset, dest_offset, length>>, -1, "EINVAL")
    ELSE IF NextOutcome(w) = "fail"
    THEN Called(w, "copy_file_range", <<src_offset, dest_offset, length>>, -1, "EXDEV")
    ELSE RangeCopied(Called(w, "copy_file_range", <<src_offset, dest_offset, length>>,
                            Transfers(w, CopySource(w, src_offset), length), ""),
                     src_offset, dest_offset,
                     Transfers(w, CopySource(w, src_offset), length))

\* BufferedReader::CopyInternal(length, dest): the bytes are read with
\* ReadInternal() and written to dest.
GenericCopied(w) == SinkWrite(w, w.dest)

GenericCopy(w, length) == GenericCopied(FdReadInternal([w EXCEPT !.dest = <<>>], length, length))

\* length_to_copy of CopyInternal().
LengthToCopy(r, length) == Min(Min(length, OffsetMax - r.limit_pos), SsizeMax)

\* The call of CopyFileRange() in CopyInternal().
IssueCopy(w, length_to_copy) ==
    CopyFileRange(w, IF w.r.has_independent_pos THEN w.r.limit_pos ELSE Unknown,
                  IF w.d.has_independent_pos THEN w.d.start_pos ELSE Unknown, length_to_copy)

RECURSIVE CopyLoop(_, _)

RECURSIVE RangeDone(_, _, _)

\* A bug to tell apart: an error of copy_file_range() fails the reader.
RangeDone_ErrorFails(w, length, length_to_copy) ==
    IF w.ret < 0
    THEN IF w.errno = "EINTR" THEN RangeDone(IssueCopy(w, length_to_copy), length,
                                             length_to_copy)
         ELSE Returning(FdFailOperation(w, "copy_file_range()"), FALSE)
    ELSE IF w.ret = 0 THEN EndOfFile(w)
    ELSE IF length = w.ret
    THEN Returning([MoveLimitPos(w, w.ret) EXCEPT !.d.start_pos = @ + w.ret], TRUE)
    ELSE CopyLoop([MoveLimitPos(w, w.ret) EXCEPT !.d.start_pos = @ + w.ret], length - w.ret)

\* RangeDone() not moving the writer's start_pos by what was copied.
RangeDone_StartNotMoved(w, length, length_to_copy) ==
    IF w.ret < 0
    THEN IF w.errno = "EINTR" THEN RangeDone(IssueCopy(w, length_to_copy), length,
                                             length_to_copy)
         ELSE GenericCopy(w, length)
    ELSE IF w.ret = 0 THEN EndOfFile(w)
    ELSE IF length = w.ret THEN Returning(MoveLimitPos(w, w.ret), TRUE)
    ELSE CopyLoop(MoveLimitPos(w, w.ret), length - w.ret)

\* After CopyFileRange() of `length_to_copy` bytes, `length` being left.
RangeDone(w, length, length_to_copy) ==
    IF w.ret < 0
    THEN IF w.errno = "EINTR" THEN RangeDone(IssueCopy(w, length_to_copy), length,
                                             length_to_copy)
         ELSE GenericCopy(w, length)
    ELSE IF w.ret = 0 THEN EndOfFile(w)
    ELSE IF length = w.ret
    THEN Returning([MoveLimitPos(w, w.ret) EXCEPT !.d.start_pos = @ + w.ret], TRUE)
    ELSE CopyLoop([MoveLimitPos(w, w.ret) EXCEPT !.d.start_pos = @ + w.ret], length - w.ret)

\* After Flush() in the loop of CopyInternal().
Flushed(w, length) ==
    IF w.ret = 0 THEN Returning(w, FALSE)
    ELSE IF w.r.limit_pos >= OffsetMax THEN Returning(FdFailOverflow(w), FALSE)
    ELSE IF LengthToCopy(w.r, length) > OffsetMax - w.d.start_pos
    THEN Returning(SinkFailOverflow(w), FALSE)
    ELSE RangeDone(IssueCopy(w, LengthToCopy(w.r, length)), length,
                   LengthToCopy(w.r, length))

\* A bug to tell apart: the FdWriter is not flushed.
CopyLoop_NoFlush(w, length) == Flushed([w EXCEPT !.ret = 1], length)

\* The loop of CopyInternal() to an FdWriter.
CopyLoop(w, length) == Flushed(SinkFlush(w), length)

\* FdReaderBase::CopyInternal(length, dest), dest being an FdWriter, where
\* copy_file_range() exists.
CopyInternal(w, length) == CopyLoop(w, length)

\* ---------------------------------------------- the FdReader state machine

\* How many FdReaders there are over the descriptor at most.
MaxReaders == 2

\* The descriptors: what they are open on and under which name.  A file of
\* "/sys" seeks like a regular file.
Descriptors ==
    {<<"file", <<"sys", "f">>>>, <<"file", <<"sysx", "f">>>>, <<"pipe", <<"sysx", "f">>>>,
     <<"proc", <<"proc", "f">>>>}

Offsets == 0..(OffsetMax + 1)

\* A position of the options: Unknown for one that is not supplied.
OptionalOffsets == {Unknown} \cup Offsets

\* The FdWriters a copy is made to.
Sinks ==
    {NewSink(<<7>>, 0, FALSE), NewSink(<<7>>, 0, TRUE), NewSink(<<7>>, OffsetMax - 1, TRUE)}

\* No ZstdReader exists: the FdReader model runs alone.
NoZstdReader ==
    /\ zr = None
    /\ src = None
    /\ decoded = None
    /\ resumed = None
    /\ ri = None
    /\ last = None

\* The state is the world `w` after the constructor, whose options `args`
\* are, over the open file `k`.
FdStarts(w, k, args) ==
    /\ Happened(w)
    /\ file = w.k
    /\ readers = <<w.r>>
    /\ sink = NoSink
    /\ calls = w.calls
    /\ step = [op |-> "new", i |-> 1, args |-> args, returned |-> TRUE, dest |-> <<>>,
               before |-> w.r, was |-> k, to |-> NoSink]
    /\ NoZstdReader
    /\ NoOthers

FdInit ==
    \E size \in 0..MaxFile, descriptor \in Descriptors, growing_source \in BOOLEAN,
       by_name \in BOOLEAN, assumed_pos \in OptionalOffsets,
       independent_pos \in OptionalOffsets, plan \in Plans(MaxCalls) :
      \E offset \in 0..size :
        /\ by_name => offset = 0
        /\ FdStarts(FdConstructed(OpenFile(size, offset, descriptor[1]), descriptor[2],
                                  growing_source, by_name, assumed_pos, independent_pos,
                                  plan),
                    OpenFile(size, offset, descriptor[1]),
                    [assumed_pos |-> assumed_pos, independent_pos |-> independent_pos,
                     by_name |-> by_name])

\* No operation is running or remembered: the user may start one.
Idle == step.op = "idle"

\* The world in which reader `i` starts an operation, copying to `d` if it
\* is a copy.
WorldOf(i, d, plan) == FdWorld(file, readers[i], d, plan)

\* The state after reader `i` ran the operation `op(args)` to the world `w`,
\* `d` being the FdWriter as it was before.
FdBecomes(w, i, d, op, args) ==
    /\ Idle
    /\ Happened(w)
    /\ file' = w.k
    /\ readers' = [readers EXCEPT ![i] = w.r]
    /\ sink' = w.d
    /\ calls' = w.calls
    /\ step' = [op |-> op, i |-> i, args |-> args, returned |-> w.returned,
                dest |-> w.dest, before |-> readers[i], was |-> file, to |-> d]
    /\ UNCHANGED <<zvars, ovars>>

\* The plans for an operation that ends in the world `w` when nothing
\* disturbs it.
PlansOf(w) == Plans(Len(w.calls))

FailuresOf(w) == Failures(Len(w.calls))

\* reader.Read(max_length, dest) past the buffer: ReadInternal().
DoFdRead ==
    \E i \in 1..Len(readers), max_length \in 1..SsizeMax :
      \E min_length \in 1..max_length :
        /\ ok(readers[i])
        /\ \E plan \in PlansOf(FdReadInternal(WorldOf(i, NoSink, Undisturbed), min_length,
                                              max_length)) :
             FdBecomes(FdReadInternal(WorldOf(i, NoSink, plan), min_length, max_length), i,
                       NoSink, "Read",
                       [min_length |-> min_length, max_length |-> max_length])

\* reader.Seek(new_pos) out of the buffer: SeekBehindBuffer().
DoFdSeek ==
    \E i \in 1..Len(readers), new_pos \in Offsets :
      /\ new_pos # readers[i].limit_pos
      /\ \E plan \in FailuresOf(FdSeekBehindBuffer(WorldOf(i, NoSink, Undisturbed),
                                                   new_pos)) :
           FdBecomes(FdSeekBehindBuffer(WorldOf(i, NoSink, plan), new_pos), i, NoSink,
                     "Seek", [new_pos |-> new_pos])

\* reader.Size()
DoFdSize ==
    \E i \in 1..Len(readers) :
      \E plan \in FailuresOf(FdSizeImpl(WorldOf(i, NoSink, Undisturbed))) :
        FdBecomes(FdSizeImpl(WorldOf(i, NoSink, plan)), i, NoSink, "Size", <<>>)

\* reader.CopyTo(length, dest) past the buffer, dest an FdWriter.
DoFdCopy ==
    \E i \in 1..Len(readers), length \in 1..SsizeMax, d \in Sinks :
      /\ ok(readers[i])
      /\ \E plan \in PlansOf(CopyInternal(WorldOf(i, d, Undisturbed), length)) :
           FdBecomes(CopyInternal(WorldOf(i, d, plan), length), i, d, "Copy",
                     [length |-> length])

\* The state after NewReaderImpl() returned the world `w`.
FdSpawned(w, i, initial_pos) ==
    /\ Idle
    /\ file' = w.k
    /\ readers' = IF w.returned = NullReader THEN [readers EXCEPT ![i] = w.r]
                  ELSE Append([readers EXCEPT ![i] = w.r], w.returned)
    /\ sink' = NoSink
    /\ calls' = w.calls
    /\ step' = [op |-> "NewReader", i |-> i, args |-> [initial_pos |-> initial_pos],
                returned |-> w.returned # NullReader, dest |-> <<>>, before |-> readers[i],
                was |-> file, to |-> NoSink]
    /\ UNCHANGED <<zvars, ovars>>

\* reader.NewReader(initial_pos)
DoFdNewReader ==
    \E i \in 1..Len(readers), initial_pos \in Offsets :
      /\ Len(readers) < MaxReaders
      /\ FdSpawned(NewReaderImpl(WorldOf(i, NoSink, Undisturbed), initial_pos), i, initial_pos)

\* The file grows by one byte, as a reader of a growing source allows.
FileGrows ==
    /\ Idle
    /\ readers[1].growing_source
    /\ Len(file.data) < MaxFile
    /\ file' = [file EXCEPT !.data = FileBytes(Len(@) + 1)]
    /\ sink' = NoSink
    /\ calls' = <<>>
    /\ step' = [op |-> "grow", i |-> 1, args |-> <<>>, returned |-> TRUE, dest |-> <<>>,
                before |-> readers[1], was |-> file, to |-> NoSink]
    /\ UNCHANGED <<readers, zvars, ovars>>

\* The last operation has returned and its histories are dropped; the file,
\* the descriptor and the readers stay as they are.
FdReturn ==
    /\ ~Idle
    /\ sink' = NoSink
    /\ calls' = <<>>
    /\ step' = [op |-> "idle", i |-> 1, args |-> <<>>, returned |-> TRUE, dest |-> <<>>,
                before |-> readers[1], was |-> file, to |-> NoSink]
    /\ UNCHANGED <<file, readers, zvars, ovars>>

\* One FdReader over a descriptor of any kind.
FdNext ==
    \/ FdReturn
    \/ DoFdRead
    \/ DoFdSeek
    \/ DoFdSize
    \/ DoFdCopy
    \/ FileGrows

FdSpec == FdInit /\ [][FdNext]_vars

\* The buffer policies of the options.
BufferPolicies == {"default", "custom"}

\* The world `w` with the reader's buffer policy set from the options.
WithBufferOptions(w, buffer_options) == [w EXCEPT !.r.buffer_options = buffer_options]

\* An FdReader over a regular file, constructed undisturbed.
SharedInit ==
    \E size \in 0..MaxFile, growing_source \in BOOLEAN, assumed_pos \in {Unknown, 0},
       independent_pos \in {Unknown, 0}, buffer_options \in BufferPolicies :
      \E offset \in 0..size :
        /\ assumed_pos = Unknown \/ independent_pos = Unknown
        /\ FdStarts(WithBufferOptions(FdConstructed(OpenFile(size, offset, "file"),
                                                    <<"sysx", "f">>, growing_source, FALSE,
                                                    assumed_pos, independent_pos,
                                                    Undisturbed),
                                      buffer_options),
                    OpenFile(size, offset, "file"),
                    [assumed_pos |-> assumed_pos, independent_pos |-> independent_pos,
                     by_name |-> FALSE])

\* The FdReaders over one descriptor: the first and those it makes.
SharedNext ==
    \/ FdReturn
    \/ DoFdRead
    \/ DoFdSeek
    \/ DoFdCopy
    \/ DoFdNewReader
    \/ FileGrows

SharedSpec == SharedInit /\ [][SharedNext]_vars

\* ------------------------------------------------ properties of FdReader

\* The state is the one the constructor left, InitializePos() having run.
Positioned == step.op = "new" /\ readers[1].is_open

\* The indices in `calls` of the calls of `call`.
CallsOf(call) == {n \in 1..Len(calls) : calls[n].call = call}

\* The index in `calls` of the first call of InitializePos().
FirstProbe == IF step.args.by_name THEN Len(calls) - Cardinality(CallsOf("lseek")) + 1 ELSE 1

\* C11: after InitializePos(), no lseek() was issued if a position was
\* supplied; with assumed_pos alone (within the file offsets) the reader is
\* ok, does not support random access for a recorded Unimplemented reason,
\* is not in independent-position mode and limit_pos = assumed_pos; with
\* independent_pos alone (within the file offsets) the reader is ok, in
\* independent-position mode, supports random access and limit_pos =
\* independent_pos; with both the reader has failed with InvalidArgument and
\* entered no mode; with one above the largest file offset the reader has
\* failed with the position overflow.
C11_PositioningMode ==
    Positioned =>
      LET r == readers[1]
          a == step.args.assumed_pos
          p == step.args.independent_pos
      IN  /\ a # Unknown \/ p # Unknown => CallsOf("lseek") = {} /\ file.offset = step.was.offset
          /\ a # Unknown /\ p = Unknown /\ a <= OffsetMax =>
               /\ ok(r)
               /\ ~r.supports_random_access
               /\ r.random_access_status.code = "Unimplemented"
               /\ ~r.has_independent_pos
               /\ r.limit_pos = a
          /\ a = Unknown /\ p # Unknown /\ p <= OffsetMax =>
               /\ ok(r)
               /\ r.supports_random_access
               /\ r.has_independent_pos
               /\ r.limit_pos = p
          /\ a # Unknown /\ p # Unknown =>
               /\ SameError(r.status, BothPositions)
               /\ r.status.code = "InvalidArgument"
               /\ ~r.supports_random_access
               /\ ~r.has_independent_pos
          /\ \/ a > OffsetMax /\ p = Unknown
             \/ p > OffsetMax /\ a = Unknown
             => SameError(r.status, PositionOverflow) /\ ~r.supports_random_access

\* An FdReader constructed with independent_pos, not at the descriptor's
\* offset.
C11_Witness ==
    /\ Positioned
    /\ step.args.independent_pos = 2
    /\ step.args.assumed_pos = Unknown
    /\ readers[1].has_independent_pos
    /\ readers[1].limit_pos = 2
    /\ file.offset = 0

C11_AssumedReached ==
    /\ Positioned
    /\ step.args.assumed_pos = OffsetMax
    /\ readers[1].limit_pos = OffsetMax
    /\ readers[1].random_access_status = AssumedPosExcludes

C11_BothReached ==
    Positioned /\ step.args.assumed_pos = 1 /\ step.args.independent_pos = 2 /\ ~ok(readers[1])

C11_OverflowReached ==
    /\ Positioned
    /\ step.args.independent_pos = OffsetMax + 1
    /\ readers[1].status.code = "ResourceExhausted"

\* Neither position was supplied: InitializePos() probed the descriptor.
Probing == Positioned /\ step.args.assumed_pos = Unknown /\ step.args.independent_pos = Unknown

\* The call `call(args)`.
IsCall(c, call, args) == c.call = call /\ c.args = args

\* Size() of the first reader as it is now, undisturbed.
SizeNow == FdSizeImpl(FdWorld(file, readers[1], NoSink, Undisturbed))

C12_NoSeekReached ==
    Probing /\ file.kind = "pipe" /\ ok(readers[1]) /\ ~readers[1].supports_random_access

C12_NoSeekEndReached ==
    Probing /\ file.kind = "proc" /\ Len(calls) = 2 /\ ~readers[1].supports_random_access

C12_SeekBackFailedReached ==
    Probing /\ Len(calls) = 3 /\ calls[3].ret < 0 /\ ~ok(readers[1])

C12_OpenedByNameReached ==
    Probing /\ step.args.by_name /\ Len(calls) = 5 /\ readers[1].exact_size = 2

\* C13: a reader whose filename starts with "/sys/" and whose position was
\* probed never supports random access.  Its constructor called
\* lseek(0, SEEK_CUR) and nothing after it: no lseek(0, SEEK_END); it left
\* exact_size unset and the reader ok, and when lseek(0, SEEK_CUR) succeeded
\* the recorded reason is Unimplemented("/sys files do not support random
\* access").  Later operations never seek to the end either.
C13_SysFiles ==
    LET r == readers[1]
    IN  /\ (Probing /\ StartsWithSys(r.filename)) =>
              /\ Len(calls) = FirstProbe
              /\ IsCall(calls[FirstProbe], "lseek", <<0, "SEEK_CUR">>)
              /\ ok(r)
              /\ ~r.supports_random_access
              /\ r.exact_size = Unknown
              /\ calls[FirstProbe].ret >= 0 =>
                   /\ r.random_access_status = SysFilesDoNot
                   /\ r.limit_pos = step.was.offset
        /\ (r.is_open /\ StartsWithSys(r.filename) /\ ~r.has_independent_pos) =>
              /\ ~r.supports_random_access
              /\ \A n \in CallsOf("lseek") : calls[n].args[2] # "SEEK_END"

\* A regular file named "/sys/f" was probed, lseek(0, SEEK_CUR) succeeded:
\* the reader is at the offset, without random access, for the reason given.
C13_Witness ==
    /\ Probing
    /\ StartsWithSys(readers[1].filename)
    /\ file.kind = "file"
    /\ Len(file.data) = 2
    /\ calls[FirstProbe].ret = 1
    /\ readers[1].limit_pos = 1
    /\ ~readers[1].supports_random_access
    /\ readers[1].random_access_status = SysFilesDoNot

\* A reader of "/sys/f" is asked to seek backwards and fails, making no call.
C13_SeekRefusedReached ==
    /\ step.op = "Seek"
    /\ StartsWithSys(readers[1].filename)
    /\ ~step.before.has_independent_pos
    /\ step.args.new_pos < step.before.limit_pos
    /\ calls = <<>>
    /\ ~ok(readers[1])

\* ------------------------------------- the loops, one system call at a time

\* The loops of OpenFd(), ReadInternal() and CopyInternal() are followed
\* here a pass at a time, the kernel choosing at each system call whether to
\* interrupt it.  A loop is at `pc`: "loop" at the top of the for loop,
\* "again" at the label again, "return" once the function has returned;
\* `left` is what remains of the request and `local` the length computed
\* for the call that was interrupted.
Loop(pc, w, left, local) == [pc |-> pc, w |-> w, left |-> left, local |-> local]

\* The call that was made last.
LastCall(w) == w.calls[Len(w.calls)]

\* open() has returned.
OpenCalled(w, assumed_pos, independent_pos) ==
    IF w.ret < 0
    THEN IF w.errno = "EINTR" THEN Loop("again", w, <<>>, 0)
         ELSE Loop("return", FdFailOperation(ResetClosed(w), "open()"), <<>>, 0)
    ELSE Loop("return", InitializePos(w, assumed_pos, independent_pos), <<>>, 0)

\* A bug to tell apart: an interrupted open() fails the reader.
OpenPass_NoRestart(w, assumed_pos, independent_pos) ==
    OpenCalled([SysOpen(w, w.r.filename) EXCEPT !.errno = "EIO"], assumed_pos,
               independent_pos)

\* FdReader(filename, options), from the label again of OpenFd() to the
\* next time it is reached, or to the end of the constructor.
OpenPass(w, assumed_pos, independent_pos) ==
    OpenCalled(SysOpen(w, w.r.filename), assumed_pos, independent_pos)

\* read() or pread() has returned.
ReadCalled(w, left, length_to_read) ==
    IF w.ret < 0
    THEN IF w.errno = "EINTR" THEN Loop("again", w, left, length_to_read)
         ELSE Loop("return",
                   Returning(FdFailOperation(w, IF w.r.has_independent_pos THEN "pread()"
                                                ELSE "read()"), FALSE),
                   left, 0)
    ELSE IF w.ret = 0 THEN Loop("return", EndOfFile(w), left, 0)
    ELSE IF w.ret >= left.min_length
    THEN Loop("return", Returning(MoveLimitPos(w, w.ret), TRUE), left, 0)
    ELSE Loop("loop", MoveLimitPos(w, w.ret),
              [min_length |-> left.min_length - w.ret,
               max_length |-> left.max_length - w.ret, at |-> left.at + w.ret], 0)

\* A bug to tell apart: an interrupted read fails the reader.
ReadPass_NoRestart(pc, w, left, length_to_read) ==
    IF w.r.limit_pos >= OffsetMax THEN Loop("return", Returning(FdFailOverflow(w), FALSE), left, 0)
    ELSE ReadCalled([IssueRead(w, left.at, LengthToRead(w.r, left.max_length))
                        EXCEPT !.errno = "EIO"],
                    left, LengthToRead(w.r, left.max_length))

\* ReadInternal(), from the top of its loop or from the label again to the
\* next time one of them is reached, or to the return.
ReadPass(pc, w, left, length_to_read) ==
    IF pc = "again" THEN ReadCalled(IssueRead(w, left.at, length_to_read), left, length_to_read)
    ELSE IF w.r.limit_pos >= OffsetMax
    THEN Loop("return", Returning(FdFailOverflow(w), FALSE), left, 0)
    ELSE ReadCalled(IssueRead(w, left.at, LengthToRead(w.r, left.max_length)), left,
                    LengthToRead(w.r, left.max_length))

\* CopyFileRange() has returned.
CopyCalled(w, left, length_to_copy) ==
    IF w.ret < 0
    THEN IF w.errno = "EINTR" THEN Loop("again", w, left, length_to_copy)
         ELSE Loop("return", GenericCopy(w, left.length), left, 0)
    ELSE IF w.ret = 0 THEN Loop("return", EndOfFile(w), left, 0)
    ELSE IF left.length = w.ret
    THEN Loop("return",
              Returning([MoveLimitPos(w, w.ret) EXCEPT !.d.start_pos = @ + w.ret], TRUE),
              left, 0)
    ELSE Loop("loop", [MoveLimitPos(w, w.ret) EXCEPT !.d.start_pos = @ + w.ret],
              [length |-> left.length - w.ret], 0)

\* Flush() has returned, at the top of the loop of CopyInternal().
CopyFlushed(w, left) ==
    IF w.ret = 0 THEN Loop("return", Returning(w, FALSE), left, 0)
    ELSE IF w.r.limit_pos >= OffsetMax
    THEN Loop("return", Returning(FdFailOverflow(w), FALSE), left, 0)
    ELSE IF LengthToCopy(w.r, left.length) > OffsetMax - w.d.start_pos
    THEN Loop("return", Returning(SinkFailOverflow(w), FALSE), left, 0)
    ELSE CopyCalled(IssueCopy(w, LengthToCopy(w.r, left.length)), left,
                    LengthToCopy(w.r, left.length))

\* CopyInternal() to an FdWriter, from the top of its loop or from the label
\* again to the next time one of them is reached, or to the return.
CopyPass(pc, w, left, length_to_copy) ==
    IF pc = "again" THEN CopyCalled(IssueCopy(w, length_to_copy), left, length_to_copy)
    ELSE CopyFlushed(SinkFlush(w), left)

\* The world before a pass of the operation under way.
PassWorld(plan) == [FdWorld(file, readers[1], sink, plan) EXCEPT !.dest = step.dest]

\* What the kernel does to the calls of a pass: nothing, or it interrupts
\* the first or the second of them.
Interruptions == {Undisturbed, Disturbed(1, "EINTR", 1), Disturbed(2, "EINTR", 1)}

\* The pass ended in the loop state `l`.  step.restarts counts the restarts
\* of the call modulo 2, which tells a restart from no step at all;
\* step.interrupted records that a call of the operation was interrupted.
Passed(l) ==
    /\ Happened(l.w)
    /\ file' = l.w.k
    /\ readers' = <<l.w.r>>
    /\ sink' = l.w.d
    /\ calls' = l.w.calls
    /\ step' = [step EXCEPT !.pc = l.pc, !.left = l.left, !.local = l.local,
                            !.returned = l.w.returned, !.dest = l.w.dest,
                            !.restarts = IF l.pc = "again" THEN 1 - @ ELSE 0,
                            !.interrupted = @ \/ l.pc = "again"]
    /\ UNCHANGED <<zvars, ovars>>

\* An operation begins.
Begun(op, args, left, d) ==
    /\ step.pc = "return"
    /\ readers[1].is_open
    /\ ok(readers[1])
    /\ sink' = d
    /\ calls' = <<>>
    /\ step' = [op |-> op, i |-> 1, pc |-> "loop", args |-> args, left |-> left, local |-> 0,
                before |-> readers[1], was |-> file, to |-> d, returned |-> TRUE,
                dest |-> <<>>, restarts |-> 0, interrupted |-> FALSE]
    /\ UNCHANGED <<file, readers>>
    /\ UNCHANGED <<zvars, ovars>>

\* FdReader(filename, options) is under way over a regular file.
RestartInit ==
    \E size \in 0..MaxFile, growing_source \in BOOLEAN, independent_pos \in OptionalOffsets :
      /\ file = OpenFile(size, 0, "file")
      /\ readers = <<NewFdReader(<<"sysx", "f">>, growing_source, TRUE)>>
      /\ sink = NoSink
      /\ calls = <<>>
      /\ step = [op |-> "new", i |-> 1, pc |-> "again",
                 args |-> [assumed_pos |-> Unknown, independent_pos |-> independent_pos,
                           by_name |-> TRUE],
                 left |-> <<>>, local |-> 0,
                 before |-> NewFdReader(<<"sysx", "f">>, growing_source, TRUE),
                 was |-> OpenFile(size, 0, "file"), to |-> NoSink, returned |-> TRUE,
                 dest |-> <<>>, restarts |-> 0, interrupted |-> FALSE]
      /\ NoZstdReader
      /\ NoOthers

\* The constructor calls open().
OpenStep ==
    /\ step.op = "new"
    /\ step.pc # "return"
    /\ \E plan \in Interruptions :
         \E w \in {PassWorld(plan)} :
           \E l \in {OpenPass(w, step.args.assumed_pos, step.args.independent_pos)} : Passed(l)

\* ReadInternal(min_length, max_length, dest) is called.
ReadBegins ==
    \E max_length \in 1..SsizeMax, min_length \in 1..SsizeMax :
      /\ min_length <= max_length
      /\ Begun("Read", [min_length |-> min_length, max_length |-> max_length],
               [min_length |-> min_length, max_length |-> max_length, at |-> 0], NoSink)

\* ReadInternal() calls read() or pread().
ReadStep ==
    /\ step.op = "Read"
    /\ step.pc # "return"
    /\ \E plan \in Interruptions :
         \E w \in {PassWorld(plan)} :
           \E l \in {ReadPass(step.pc, w, step.left, step.local)} : Passed(l)

\* CopyInternal(length, dest) is called, dest being an FdWriter.
CopyBegins ==
    \E length \in 1..SsizeMax, d \in Sinks :
      Begun("Copy", [length |-> length], [length |-> length], d)

\* CopyInternal() calls Flush() and CopyFileRange().
CopyStep ==
    /\ step.op = "Copy"
    /\ step.pc # "return"
    /\ \E plan \in Interruptions :
         \E w \in {PassWorld(plan)} :
           \E l \in {CopyPass(step.pc, w, step.left, step.local)} : Passed(l)

\* A pass of the operation under way.
Pass == OpenStep \/ ReadStep \/ CopyStep

RestartNext == OpenStep \/ ReadBegins \/ ReadStep \/ CopyBegins \/ CopyStep

\* A thread that is in a function goes on running it.
RestartSpec == RestartInit /\ [][RestartNext]_vars /\ WF_vars(Pass)

\* The call made last was interrupted.
Interrupted == calls # <<>> /\ calls[Len(calls)].errno = "EINTR"

\* An operation is under way.
Pending == step.pc # "return"

\* The operation that has returned, run from where it began with no call
\* interrupted.
Alone ==
    IF step.op = "new"
    THEN FdConstructed(step.was, step.before.filename, step.before.growing_source, TRUE,
                       step.args.assumed_pos, step.args.independent_pos, Undisturbed)
    ELSE IF step.op = "Read"
    THEN FdReadInternal(FdWorld(step.was, step.before, NoSink, Undisturbed),
                        step.args.min_length, step.args.max_length)
    ELSE CopyInternal(FdWorld(step.was, step.before, step.to, Undisturbed), step.args.length)

\* The operation returned what it returns when no call is interrupted.
SameAsAlone ==
    /\ readers[1] = Alone.r
    /\ file = Alone.k
    /\ sink = Alone.d
    /\ step.returned = Alone.returned
    /\ step.dest = Alone.dest

\* C14: a call of open(), read(), pread() or copy_file_range() that is
\* interrupted with EINTR is made again, the same call with the same
\* arguments; the interruption fails no reader and moves neither limit_pos
\* nor the file; an operation that has returned has the result, the reader,
\* the file, the destination it has when no call is interrupted; and when
\* from some time on no call is interrupted, every operation under way
\* returns.
C14_Restart ==
    /\ [][Interrupted => /\ calls'[1].call = calls[Len(calls)].call
                        /\ calls'[1].args = calls[Len(calls)].args]_vars
    /\ [][Interrupted' => /\ ok(readers'[1]) = ok(readers[1])
                         /\ readers'[1].limit_pos = readers[1].limit_pos
                         /\ readers'[1].is_open = readers[1].is_open
                         /\ file' = file
                         /\ Pending']_vars
    /\ [](~Pending => SameAsAlone)
    /\ (<>[]~Interrupted) => (Pending ~> ~Pending)

\* Without the assumption the operation need not return: a call may be
\* interrupted for ever.
C14_AlwaysReturns == Pending ~> ~Pending

\* A read of two bytes, whose call was interrupted and made again, returned
\* true with the two bytes of the file, at position 2.
C14_Witness ==
    /\ step.op = "Read"
    /\ ~Pending
    /\ step.interrupted
    /\ step.returned
    /\ step.dest = FileBytes(2)
    /\ readers[1].limit_pos = 2

C14_OpenReached == step.op = "new" /\ ~Pending /\ step.interrupted /\ readers[1].is_open

C14_CopyReached ==
    /\ step.op = "Copy"
    /\ ~Pending
    /\ step.interrupted
    /\ step.returned
    /\ readers[1].limit_pos > step.before.limit_pos

\* How many bytes the first `n` calls of the operation transferred.
RECURSIVE TransferredBy(_)
TransferredBy(n) ==
    IF n = 0 THEN 0
    ELSE TransferredBy(n - 1)
           + (IF calls[n].call \in {"read", "pread", "copy_file_range"} /\ calls[n].ret > 0
              THEN calls[n].ret ELSE 0)

\* The length that read() or pread() call `n` asked for.
Requested(n) == calls[n].args[2]

\* C15: in ReadInternal(min_length, max_length) every read() and pread()
\* asks for at least one byte and at most the least of: what is left of
\* max_length, the largest file offset less limit_pos at the time of the
\* call, SSIZE_MAX and the chunk limit (2^30); a read with limit_pos at the
\* largest file offset makes no call and fails with ResourceExhausted
\* ("Reader position overflow"), limit_pos staying; and no reader's
\* limit_pos ever exceeds the largest file offset.
C15_ReadLength ==
    /\ \A i \in 1..Len(readers) : readers[i].limit_pos <= OffsetMax
    /\ step.op = "Read" =>
         /\ \A n \in 1..Len(calls) :
              /\ calls[n].call \in {"read", "pread"}
              /\ Requested(n) >= 1
              /\ Requested(n) <= step.args.max_length - TransferredBy(n - 1)
              /\ Requested(n) <= OffsetMax - (step.before.limit_pos + TransferredBy(n - 1))
              /\ Requested(n) <= SsizeMax
              /\ Requested(n) <= ReadChunkMax
         /\ step.before.limit_pos >= OffsetMax =>
              /\ calls = <<>>
              /\ ~step.returned
              /\ SameError(readers[step.i].status, PositionOverflow)
              /\ readers[step.i].limit_pos = step.before.limit_pos

\* A reader at limit_pos 2, one less than the largest offset, was asked for
\* up to three bytes and asked read() for one.
C15_Witness ==
    /\ step.op = "Read"
    /\ step.before.limit_pos = OffsetMax - 1
    /\ step.args.max_length = SsizeMax
    /\ Len(calls) >= 1
    /\ Requested(1) = 1
    /\ calls[1].ret = 1
    /\ readers[1].limit_pos = OffsetMax

\* A read at the largest offset failed.
C15_OverflowReached ==
    /\ step.op = "Read"
    /\ step.before.limit_pos = OffsetMax
    /\ ~ok(readers[1])

\* A read was cut by the chunk limit and went on with a second call.
C15_ChunkReached ==
    /\ step.op = "Read"
    /\ step.args.min_length > ReadChunkMax
    /\ Len(calls) = 2
    /\ Requested(1) = ReadChunkMax
    /\ calls[2].ret >= 0

\* How many bytes the operation transferred in all.
TotalRead == TransferredBy(Len(calls))

\* Where in the file the reader that ran the operation took its bytes from.
ReadFrom == IF step.before.has_independent_pos THEN step.before.limit_pos ELSE step.was.offset

\* C16: ReadInternal(min_length, max_length, dest) returns true exactly when
\* its calls of read() or pread() transferred min_length bytes or more in
\* all; they never transfer more than max_length; dest holds the bytes of
\* the file from where the reader stood, in order and without gaps; limit_pos
\* has advanced by their number, whatever is returned; and when false is
\* returned, either the last call returned 0, the reader being ok and, the
\* source not growing, exact_size being limit_pos, or the reader has failed.
C16_Accumulates ==
    step.op = "Read" =>
      LET r == readers[step.i]
      IN  /\ step.returned <=> TotalRead >= step.args.min_length
          /\ TotalRead <= step.args.max_length
          /\ step.dest = BytesAt(step.was, ReadFrom, TotalRead)
          /\ Len(step.dest) = TotalRead
          /\ r.limit_pos = step.before.limit_pos + TotalRead
          /\ ~step.returned =>
               \/ /\ calls # <<>>
                  /\ calls[Len(calls)].ret = 0
                  /\ ok(r)
                  /\ r.exact_size = IF r.growing_source THEN step.before.exact_size
                                     ELSE r.limit_pos
               \/ /\ ~ok(r)
                  /\ \/ calls # <<>> /\ calls[Len(calls)].ret < 0
                     \/ SameError(r.status, PositionOverflow)
          /\ step.returned => ok(r) /\ r.exact_size = step.before.exact_size

\* A read of two bytes got one from its first call, which asked for two,
\* and the other from its second: it returned true with both.
C16_Witness ==
    /\ step.op = "Read"
    /\ step.args.min_length = 2
    /\ Len(calls) = 2
    /\ Requested(1) = 2
    /\ calls[1].ret = 1
    /\ calls[2].ret = 1
    /\ step.returned
    /\ step.dest = FileBytes(2)

\* A read of two bytes got one and then met the end of a file that does not
\* grow: it returned false, one byte further, the size now known.
C16_EndReached ==
    /\ step.op = "Read"
    /\ step.args.min_length = 2
    /\ Len(calls) = 2
    /\ calls[2].ret = 0
    /\ ~step.returned
    /\ ok(readers[1])
    /\ readers[1].limit_pos = step.before.limit_pos + 1
    /\ step.before.exact_size = Unknown
    /\ readers[1].exact_size = readers[1].limit_pos

\* A read failed after a byte was read.
C16_FailedReached ==
    /\ step.op = "Read"
    /\ Len(calls) = 2
    /\ calls[1].ret = 1
    /\ calls[2].ret < 0
    /\ ~ok(readers[1])

\* Call `n` is copy_file_range().
IsRange(n) == calls[n].call = "copy_file_range"

\* Call `n` failed, and was not merely interrupted.
Refused(n) == calls[n].ret < 0 /\ calls[n].errno # "EINTR"

\* C17: in CopyInternal(length, dest) to an FdWriter every call of
\* copy_file_range() comes after a successful Flush() of the writer with
\* nothing between them but interrupted calls of copy_file_range(); an
\* interrupted call is made again with the same arguments; after a call
\* that failed otherwise, reader and writer are ok, no call of
\* copy_file_range() or Flush() follows, and the rest is read with read() or
\* pread(), the first of which asks for no more than was left to copy; a
\* call that returned 0 is the last, false is returned, the reader is ok
\* and, the source not growing, exact_size is limit_pos.  In all cases the
\* writer's file and buffer end with what they held followed by the bytes
\* transferred, limit_pos has advanced by their number, and true is
\* returned exactly when that number is length.
C17_CopyFileRange ==
    step.op = "Copy" =>
      LET r == readers[step.i]
      IN  /\ \A n \in 1..Len(calls) :
               IsRange(n) =>
                 /\ n > 1
                 /\ \/ calls[n - 1].call = "Flush" /\ calls[n - 1].ret = 1
                    \/ /\ IsRange(n - 1)
                       /\ calls[n - 1].errno = "EINTR"
                       /\ calls[n - 1].args = calls[n].args
                 /\ calls[n].errno = "EINTR" => n < Len(calls) /\ IsRange(n + 1)
                 /\ Refused(n) =>
                      /\ \A m \in (n + 1)..Len(calls) : calls[m].call \in {"read", "pread"}
                      /\ n < Len(calls) =>
                           Requested(n + 1) <= step.args.length - TransferredBy(n)
                      /\ ok(sink)
                      /\ ~ok(r) => \/ n < Len(calls) /\ calls[Len(calls)].ret < 0
                                   \/ SameError(r.status, PositionOverflow)
                      /\ (n = Len(calls) \/ calls[Len(calls)].ret > 0) =>
                           ok(r) \/ SameError(r.status, PositionOverflow)
                 /\ calls[n].ret = 0 =>
                      /\ n = Len(calls)
                      /\ ~step.returned
                      /\ ok(r)
                      /\ ok(sink)
                      /\ r.exact_size = IF r.growing_source THEN step.before.exact_size
                                         ELSE r.limit_pos
          /\ SinkContent(sink) = SinkContent(step.to) \o BytesAt(step.was, ReadFrom, TotalRead)
          /\ r.limit_pos = step.before.limit_pos + TotalRead
          /\ step.returned <=> TotalRead = step.args.length

\* copy_file_range() refused to copy from a pipe: the two bytes asked for
\* were read with read() and written to the writer, both streams ok.
C17_Witness ==
    /\ step.op = "Copy"
    /\ step.args.length = 2
    /\ Len(calls) = 3
    /\ IsRange(2)
    /\ Refused(2)
    /\ calls[3].call = "read"
    /\ calls[3].ret = 2
    /\ step.returned
    /\ ok(readers[1])
    /\ ok(sink)
    /\ sink.buf = FileBytes(2)

\* Two bytes were copied in two calls of copy_file_range(), each after a
\* Flush().
C17_TwiceReached ==
    /\ step.op = "Copy"
    /\ Len(calls) = 4
    /\ IsRange(2)
    /\ IsRange(4)
    /\ calls[3].call = "Flush"
    /\ step.returned
    /\ SinkContent(sink) = SinkContent(step.to) \o FileBytes(2)

\* copy_file_range() copied a byte and then refused: the rest was read.
C17_RemainderReached ==
    /\ step.op = "Copy"
    /\ Len(calls) = 5
    /\ calls[2].ret = 1
    /\ Refused(4)
    /\ calls[5].call \in {"read", "pread"}
    /\ calls[5].ret = 1
    /\ step.returned

\* copy_file_range() returned 0 at the end of a file that does not grow.
C17_EndReached ==
    /\ step.op = "Copy"
    /\ IsRange(Len(calls))
    /\ calls[Len(calls)].ret = 0
    /\ ~step.returned
    /\ step.before.exact_size = Unknown
    /\ readers[1].exact_size = readers[1].limit_pos

\* An interrupted copy_file_range() was made again.
C17_InterruptedReached ==
    /\ step.op = "Copy"
    /\ Len(calls) = 3
    /\ calls[2].errno = "EINTR"
    /\ IsRange(3)
    /\ step.returned

\* NewReaderImpl() was called on an ok reader that supports it.
Spawning == step.op = "NewReader" /\ ok(step.before) /\ SupportsNewReader(step.before)

\* The reader that NewReaderImpl() returned.
Child == readers[Len(readers)]

\* What the new reader takes from the reader it was made by, and what the
\* call leaves alone: that reader, the file and the descriptor's offset.
Inherits ==
    /\ step.returned
    /\ Len(readers) > step.i
    /\ calls = <<>>
    /\ ~Child.owns_fd
    /\ Child.is_open
    /\ Child.has_independent_pos
    /\ Child.filename = step.before.filename
    /\ Child.growing_source = step.before.growing_source
    /\ Child.exact_size = step.before.exact_size
    /\ Child.buffer_options = step.before.buffer_options
    /\ readers[step.i] = step.before
    /\ file = step.was

\* C18 as stated: the new reader starts at initial_pos, whatever it is.
C18_AsStated ==
    Spawning => Inherits /\ ok(Child) /\ Child.limit_pos = step.args.initial_pos

\* C18: NewReaderImpl(initial_pos) on an ok reader that supports it makes no
\* system call and returns a reader of the same file that does not own the
\* descriptor, is in independent-position mode and has the growing_source,
\* the exact_size and the buffer policy of the reader it was made by, which
\* is left as it was, as are the file and its offset.  With initial_pos up
\* to the largest file offset the new reader is ok, at initial_pos, with
\* random access; beyond, it has failed with ResourceExhausted ("Reader
\* position overflow") at position 0.
C18_NewReader ==
    Spawning =>
      /\ Inherits
      /\ step.args.initial_pos <= OffsetMax =>
           /\ ok(Child)
           /\ Child.limit_pos = step.args.initial_pos
           /\ Child.supports_random_access
      /\ step.args.initial_pos > OffsetMax =>
           /\ SameError(Child.status, PositionOverflow)
           /\ Child.limit_pos = 0

\* A reader with the custom buffer policy, at position 1 of a file of two
\* bytes whose size it knows, made a reader at position 2.
C18_Witness ==
    /\ Spawning
    /\ step.before.buffer_options = "custom"
    /\ step.before.exact_size = 2
    /\ step.before.limit_pos = 1
    /\ step.args.initial_pos = 2
    /\ ok(Child)
    /\ Child.limit_pos = 2
    /\ Child.exact_size = 2
    /\ Child.buffer_options = "custom"

\* A new reader was asked for beyond the largest file offset.
C18_OverflowReached ==
    /\ Spawning
    /\ step.args.initial_pos > OffsetMax
    /\ ~ok(Child)
    /\ Child.limit_pos = 0

\* A reader without random access was asked for a new reader: it failed.
C18_UnsupportedReached ==
    /\ step.op = "NewReader"
    /\ ok(step.before)
    /\ ~SupportsNewReader(step.before)
    /\ ~step.returned
    /\ readers[step.i].status.code = "Unimplemented"

\* The reader that ran the last operation was in independent-position mode.
Independent == step.op \in {"Read", "Seek", "Size", "Copy", "NewReader"} /\ step.before.has_independent_pos

\* limit_pos of the reader at the time of call `n` of the operation.
LimitPosAt(n) == step.before.limit_pos + TransferredBy(n - 1)

\* C19: an operation of a reader in independent-position mode leaves the
\* descriptor's file offset where it was: the constructor given
\* independent_pos makes no system call; ReadInternal() calls only pread(),
\* at limit_pos; a seek calls no lseek() and a successful one leaves
\* limit_pos at the position sought; copy_file_range() is given limit_pos as
\* the offset in the source.  And whichever readers over the descriptor ran
\* before, a read of a reader with random access, the first reader or one
\* made by NewReader(), delivers the bytes of the file from that reader's
\* limit_pos on, limit_pos advancing by their number.
C19_IndependentPos ==
    /\ (Positioned /\ step.args.independent_pos # Unknown /\ ~step.args.by_name) =>
          calls = <<>> /\ file = step.was
    /\ Independent =>
         /\ file.offset = step.was.offset
         /\ \A n \in 1..Len(calls) :
              /\ calls[n].call \notin {"read", "lseek"}
              /\ calls[n].call = "pread" => calls[n].args[3] = LimitPosAt(n)
              /\ IsRange(n) => calls[n].args[1] = LimitPosAt(n)
         /\ (step.op = "Seek" /\ step.returned) =>
              readers[step.i].limit_pos = step.args.new_pos
    /\ (step.op = "Read" /\ step.before.supports_random_access) =>
         /\ step.dest = BytesAt(step.was, step.before.limit_pos, TotalRead)
         /\ readers[step.i].limit_pos = step.before.limit_pos + TotalRead

\* The first reader, which shares the descriptor's offset, stands at 1 and a
\* reader it made stands at 0; the second has just read the first byte of
\* the file and the descriptor's offset is still 1.
C19_Witness ==
    /\ Len(readers) = 2
    /\ ~readers[1].has_independent_pos
    /\ readers[1].supports_random_access
    /\ readers[1].limit_pos = 1
    /\ step.op = "Read"
    /\ step.i = 2
    /\ step.before.limit_pos = 0
    /\ step.dest = FileBytes(1)
    /\ readers[2].limit_pos = 1
    /\ file.offset = 1

\* After the second reader read, the first read on from its own position.
C19_ParentReadReached ==
    /\ Len(readers) = 2
    /\ ~readers[1].has_independent_pos
    /\ readers[2].limit_pos = 2
    /\ step.op = "Read"
    /\ step.i = 1
    /\ step.before.limit_pos = 1
    /\ step.dest = <<2>>

\* A reader in independent-position mode copied with copy_file_range().
C19_CopyReached ==
    /\ Independent
    /\ step.op = "Copy"
    /\ step.returned
    /\ Len(calls) = 2
    /\ IsRange(2)
    /\ calls[2].args[1] = 1
    /\ file.offset = 0

\* A reader in independent-position mode sought backwards.
C19_SeekReached ==
    /\ Independent
    /\ step.op = "Seek"
    /\ step.returned
    /\ step.args.new_pos < step.before.limit_pos

\* Size() was called on an ok reader.
Sizing == step.op = "Size" /\ ok(step.before)

\* The reader that ran the last operation, as it is now.
Ran == readers[step.i]

\* Size() returned the known size of the reader, calling nothing and
\* leaving the reader as it was.
SizeKnown ==
    (Sizing /\ step.before.exact_size # Unknown) =>
      /\ calls = <<>>
      /\ step.returned = step.before.exact_size
      /\ Ran = step.before

\* exact_size is set only for a source that does not grow: by the
\* constructor from what the seek to the end returned, by an operation from
\* what fstat() returned, or to limit_pos when a call returned 0.
SizeSetWhenNotGrowing ==
    /\ \A i \in 1..Len(readers) : readers[i].growing_source => readers[i].exact_size = Unknown
    /\ (Positioned /\ readers[1].exact_size # Unknown) =>
          \E n \in CallsOf("lseek") :
            calls[n].args[2] = "SEEK_END" /\ calls[n].ret = readers[1].exact_size
    /\ (step.op \in {"Read", "Seek", "Size", "Copy"} /\ Ran.exact_size # step.before.exact_size) =>
          \/ \E n \in CallsOf("fstat") : calls[n].ret = Ran.exact_size
          \/ /\ calls # <<>>
             /\ calls[Len(calls)].ret = 0
             /\ calls[Len(calls)].call \in {"read", "pread", "copy_file_range"}
             /\ Ran.exact_size = Ran.limit_pos

\* C20 as stated: every Size() of an ok reader of a growing source calls
\* fstat().
C20_AsStated ==
    /\ SizeKnown
    /\ SizeSetWhenNotGrowing
    /\ (Sizing /\ step.before.growing_source) =>
          Len(calls) = 1 /\ calls[1].call = "fstat"

\* C20: Size() of an ok reader whose exact_size is set returns it, calling
\* nothing; exact_size is set only for a source that does not grow, from
\* the seek to the end of the constructor, from fstat() or at the end of the
\* file, and is unset in every state of a reader of a growing source.
\* Size() of an ok reader of a growing source that supports random access
\* calls fstat() each time and returns the size the file has then, leaving
\* exact_size unset; of one that does not support random access it calls
\* nothing, returns nullopt and fails the reader with the reason recorded.
C20_Size ==
    /\ SizeKnown
    /\ SizeSetWhenNotGrowing
    /\ (Sizing /\ step.before.growing_source /\ step.before.supports_random_access) =>
          /\ Len(calls) = 1
          /\ calls[1].call = "fstat"
          /\ calls[1].ret >= 0 =>
               /\ step.returned = Len(file.data)
               /\ Ran = step.before
          /\ calls[1].ret < 0 => step.returned = Unknown /\ ~ok(Ran)
    /\ (Sizing /\ step.before.exact_size = Unknown /\ ~step.before.supports_random_access) =>
          /\ calls = <<>>
          /\ step.returned = Unknown
          /\ SameError(Ran.status, step.before.random_access_status)

\* The size of a growing file of two bytes was asked for: fstat() returned
\* 2, and the reader still does not know the size.
C20_Witness ==
    /\ Sizing
    /\ step.before.growing_source
    /\ Len(calls) = 1
    /\ calls[1].call = "fstat"
    /\ step.returned = 2
    /\ Ran.exact_size = Unknown

\* The known size was returned without a call.
C20_KnownReached ==
    /\ Sizing
    /\ step.before.exact_size = 2
    /\ step.returned = 2
    /\ calls = <<>>

\* Size() of a reader of a growing pipe failed without a call.
C20_PipeReached ==
    /\ Sizing
    /\ step.before.growing_source
    /\ file.kind = "pipe"
    /\ calls = <<>>
    /\ ~ok(Ran)

\* fstat() told Size() the size of a file that does not grow.
C20_StattedReached ==
    /\ Sizing
    /\ ~step.before.growing_source
    /\ step.before.exact_size = Unknown
    /\ Len(calls) = 1
    /\ Ran.exact_size = 2

\* The first reader as it is now, about to run an operation undisturbed.
Now == FdWorld(file, readers[1], NoSink, Undisturbed)

\* The operation that ended in the world `w` failed the first reader with
\* the reason recorded by InitializePos(), calling nothing and moving
\* nothing.
RefusedFor(w) ==
    /\ w.calls = <<>>
    /\ w.k = file
    /\ ~ok(w.r)
    /\ SameError(w.r.status, readers[1].random_access_status)
    /\ w.r.limit_pos = readers[1].limit_pos
    /\ w.r.exact_size = readers[1].exact_size

\* C21: in every state in which the reader is open, ok and without random
\* access, the reason recorded by InitializePos() is not OK, and a seek to a
\* position before limit_pos, Size() when exact_size is unknown, and
\* NewReader() at any position each fail the reader with that reason,
\* returning false, nullopt and nullptr.
C21_RecordedReason ==
    LET r == readers[1]
    IN  (r.is_open /\ ok(r) /\ ~r.supports_random_access) =>
          /\ ~ok([status |-> r.random_access_status])
          /\ \A new_pos \in Offsets :
               new_pos < r.limit_pos =>
                 /\ RefusedFor(FdSeekBehindBuffer(Now, new_pos))
                 /\ FdSeekBehindBuffer(Now, new_pos).returned = FALSE
          /\ r.exact_size = Unknown =>
               /\ RefusedFor(FdSizeImpl(Now))
               /\ FdSizeImpl(Now).returned = Unknown
          /\ \A initial_pos \in Offsets :
               /\ RefusedFor(NewReaderImpl(Now, initial_pos))
               /\ NewReaderImpl(Now, initial_pos).returned = NullReader

\* A reader over a pipe was asked to seek backwards and one over a file of
\* /proc for its size: each failed with the reason recorded at the probe.
C21_Witness ==
    /\ step.op \in {"Seek", "Size"}
    /\ file.kind \in {"pipe", "proc"}
    /\ readers[1].is_open
    /\ ok(step.before)
    /\ ~step.before.supports_random_access
    /\ ~ok([status |-> step.before.random_access_status])
    /\ step.op = "Seek" => step.args.new_pos < step.before.limit_pos
    /\ step.op = "Size" => step.before.exact_size = Unknown
    /\ calls = <<>>
    /\ ~ok(readers[1])
    /\ SameError(readers[1].status, step.before.random_access_status)

C21_SizeRefusedReached ==
    /\ C21_Witness
    /\ step.op = "Size"
    /\ file.kind = "proc"

C21_SeekFailedProbeReached ==
    /\ C21_Witness
    /\ step.op = "Seek"
    /\ step.before.random_access_status.code # "Unimplemented"

\* ------------------------------------------------------------- Writer

\* The largest room a Writer's buffer has in the model.
MaxRoom == 2

\* nullptr, and the addresses at which a Writer's buffer may start.
NullPtr == 0

Buffers == {1, MaxRoom + 2}

\* A Writer: its status, start_pos_ and buffer pointers.
NewWriter(initial_pos) ==
    [status |-> OkStatus, is_open |-> TRUE, start_pos |-> initial_pos, start |-> NullPtr,
     cursor |-> NullPtr, limit |-> NullPtr]

WriterStartToCursor(x) == x.cursor - x.start

WriterAvailable(x) == x.limit - x.cursor

\* pos(): Position is unsigned, the sum wraps.
WriterPos(x) == (x.start_pos + WriterStartToCursor(x)) % (PositionMax + 1)

WriterLimitPos(x) == (x.start_pos + (x.limit - x.start)) % (PositionMax + 1)

WriterSetBuffer(x, start, start_to_limit) ==
    [x EXCEPT !.start = start, !.cursor = start, !.limit = start + start_to_limit]

WriterSetCursor(x, cursor) == [x EXCEPT !.cursor = cursor]

WriterMoveCursor(x, length) == [x EXCEPT !.cursor = @ + length]

WriterSetStartPos(x, new_start_pos) == [x EXCEPT !.start_pos = new_start_pos]

\* A bug to tell apart: a failed Writer keeps its buffer.
WriterOnFail_KeepsBuffer(x) == x

\* Writer::OnFail(): set_buffer().
WriterOnFail(x) == WriterSetBuffer(x, NullPtr, 0)

WriterAnnotateStatusImpl(x, status) ==
    IF x.is_open THEN Annotate(status, "at byte", WriterPos(x)) ELSE status

\* Object::FailWithoutAnnotation(): the first failure is kept.
WriterFailWithoutAnnotation(x, status) ==
    IF ok(x) THEN WriterOnFail([x EXCEPT !.status = status]) ELSE WriterOnFail(x)

WriterFail(x, status) ==
    WriterFailWithoutAnnotation(x, WriterAnnotateStatusImpl(x, status))

WriterFailOverflow(x) ==
    WriterFail(x, Status("ResourceExhausted", "Writer position overflow"))

\* ------------------------------------------- the Writer written to

\* What a call of the destination does: it fails, or it succeeds, leaving
\* its buffer in place or making a new one of some room at some address.
DestFailed == Status("Internal", "destination failed")

NewBuffer(start, room) == [outcome |-> "buffer", start |-> start, room |-> room]

Keeps == [outcome |-> "keeps", start |-> NullPtr, room |-> 0]

Fails == [outcome |-> "fails", start |-> NullPtr, room |-> 0]

PushOutcomes == {Fails} \cup {NewBuffer(start, room) : start \in Buffers, room \in 1..MaxRoom}

FlushOutcomes == {Keeps, Fails} \cup {NewBuffer(NullPtr, 0)}

\* The bytes before the cursor are handed over: they are counted in
\* start_pos and the buffer is given up.
DestSynced(d) == WriterSetBuffer(WriterSetStartPos(d, WriterPos(d)), NullPtr, 0)

\* Push(1) of the destination: with no room left it hands its bytes over
\* and makes a buffer that does not reach beyond the largest position.
DestPush(d, o) ==
    IF WriterAvailable(d) >= 1 \/ ~ok(d) THEN d
    ELSE IF o.outcome = "fails" THEN WriterFail(d, DestFailed)
    ELSE IF WriterPos(d) = PositionMax THEN WriterFailOverflow(DestSynced(d))
    ELSE WriterSetBuffer(DestSynced(d), o.start, Min(o.room, PositionMax - WriterPos(d)))

\* Flush() of the destination.
DestFlush(d, o) ==
    IF ~ok(d) THEN d
    ELSE IF o.outcome = "fails" THEN WriterFail(d, DestFailed)
    ELSE IF o.outcome = "keeps" THEN d
    ELSE DestSynced(d)

\* ------------------------------------------ PositionShiftingWriter

\* How the writer holds its destination: Writer* (not owned, stable),
\* std::unique_ptr<Writer> (owned, stable), or a Writer stored inline
\* (owned, moved together with the PositionShiftingWriter).
DestKinds == {"Writer*", "unique_ptr", "inline"}

IsOwning(kind) == kind # "Writer*"

IsStable(kind) == kind # "inline"

\* PositionShiftingWriterBase(base_pos), before Initialize().
NewPsw(base_pos, kind) ==
    [status |-> OkStatus, is_open |-> TRUE, start_pos |-> 0, start |-> NullPtr,
     cursor |-> NullPtr, limit |-> NullPtr, base_pos |-> base_pos, kind |-> kind]

\* The world an operation of the writer runs in: p, the writer; d, its
\* destination; calls, the calls it made on the destination.
PswWorld(p, d) == [p |-> p, d |-> d, calls |-> <<>>, returned |-> TRUE]

DestCalled(v, call, args) == [v EXCEPT !.calls = Append(@, [call |-> call, args |-> args])]

\* AnnotateOverDest(): the position of this writer is added to a status of
\* the destination.
PswAnnotateOverDest(p, status) ==
    IF p.is_open THEN Annotate(status, "with relative position at byte", WriterPos(p))
    ELSE status

PswSyncBuffer(v) == [v EXCEPT !.d = WriterSetCursor(@, v.p.cursor)]

\* A bug to tell apart: the position is shifted without the check.
PswMakeBuffer_Unchecked(v) ==
    LET q == WriterSetStartPos(WriterSetBuffer(v.p, v.d.cursor, WriterAvailable(v.d)),
                               (WriterPos(v.d) + v.p.base_pos) % (PositionMax + 1))
    IN  IF ~ok(v.d)
        THEN [v EXCEPT !.p = WriterFailWithoutAnnotation(q, PswAnnotateOverDest(q, v.d.status))]
        ELSE [v EXCEPT !.p = q]

\* A bug to tell apart: the buffer is taken from the start of the
\* destination's, over the bytes already written there.
PswMakeBuffer_FromStart(v) ==
    IF WriterPos(v.d) > PositionMax - v.p.base_pos
    THEN [v EXCEPT !.p = WriterFailOverflow(@)]
    ELSE LET q == WriterSetStartPos(WriterSetBuffer(v.p, v.d.start, v.d.limit - v.d.start),
                                    WriterPos(v.d) + v.p.base_pos)
         IN  IF ~ok(v.d)
             THEN [v EXCEPT !.p = WriterFailWithoutAnnotation(
                                      q, PswAnnotateOverDest(q, v.d.status))]
             ELSE [v EXCEPT !.p = q]

PswMakeBuffer(v) ==
    IF WriterPos(v.d) > PositionMax - v.p.base_pos
    THEN [v EXCEPT !.p = WriterFailOverflow(@)]
    ELSE LET q == WriterSetStartPos(WriterSetBuffer(v.p, v.d.cursor, WriterAvailable(v.d)),
                                    WriterPos(v.d) + v.p.base_pos)
         IN  IF ~ok(v.d)
             THEN [v EXCEPT !.p = WriterFailWithoutAnnotation(
                                      q, PswAnnotateOverDest(q, v.d.status))]
             ELSE [v EXCEPT !.p = q]

PswInitialize(v) == PswMakeBuffer(v)

\* PositionShiftingWriter(dest, options).
PswConstructed(d, base_pos, kind) == PswInitialize(PswWorld(NewPsw(base_pos, kind), d))

\* Reset(dest, options).
PswReset(v, d, base_pos) == PswConstructed(d, base_pos, v.p.kind)

\* The destination moved to another object: a buffer it holds inline is at
\* another address, by `shift`.
DestMoved(d, shift) ==
    IF d.start = NullPtr THEN d
    ELSE [d EXCEPT !.start = @ + shift, !.cursor = @ + shift, !.limit = @ + shift]

\* The move constructor: the fields of Writer are moved, then MoveDest().
PswMoveDest(v, shift) ==
    IF IsStable(v.p.kind) THEN v
    ELSE LET synced == PswSyncBuffer(v)
         IN  PswMakeBuffer([synced EXCEPT !.d = DestMoved(@, shift)])

\* SaturatingAdd(base_pos(), *write_size_hint).
SaturatingAdd(a, b) == Min(a + b, PositionMax)

PswSetWriteSizeHintImpl(v, write_size_hint) ==
    IF IsOwning(v.p.kind)
    THEN PswMakeBuffer(DestCalled(PswSyncBuffer(v), "SetWriteSizeHint",
                                  <<IF write_size_hint = Unknown THEN Unknown
                                    ELSE SaturatingAdd(v.p.base_pos, write_size_hint)>>))
    ELSE v

FlushTypes == {"FromObject", "FromProcess", "FromMachine"}

\* A bug to tell apart: an object flush reaches a destination that is not
\* owned.
PswFlushImpl_Always(v, flush_type, o) ==
    IF ~ok(v.p) THEN Returning(v, FALSE)
    ELSE LET flushed == DestCalled([PswSyncBuffer(v) EXCEPT !.d = DestFlush(@, o)],
                                   "Flush", <<flush_type>>)
         IN  Returning(PswMakeBuffer(flushed), ok(flushed.d))

PswFlushImpl(v, flush_type, o) ==
    IF ~ok(v.p) THEN Returning(v, FALSE)
    ELSE IF flush_type # "FromObject" \/ IsOwning(v.p.kind)
    THEN LET flushed == DestCalled([PswSyncBuffer(v) EXCEPT !.d = DestFlush(@, o)],
                                   "Flush", <<flush_type>>)
         IN  Returning(PswMakeBuffer(flushed), ok(flushed.d))
    ELSE Returning(PswMakeBuffer(PswSyncBuffer(v)), TRUE)

\* PushSlow(1, _): the destination is asked for room.
PswPushSlow(v, o) ==
    IF ~ok(v.p) THEN Returning(v, FALSE)
    ELSE LET pushed == DestCalled([PswSyncBuffer(v) EXCEPT !.d = DestPush(@, o)], "Push", <<1>>)
         IN  Returning(PswMakeBuffer(pushed), ok(pushed.d))

\* Write() of `length` bytes that fit in the buffer.
PswWriteFast(v, length) == Returning([v EXCEPT !.p = WriterMoveCursor(@, length)], TRUE)

\* --------------------------- the PositionShiftingWriter at work

\* The distance by which a Writer held inline moves with its holder.
Relocation == 2 * MaxRoom + 2

\* The writers a PositionShiftingWriter may be given: failed ones, and ok
\* ones at any position, with a buffer partly written or with none.
Destinations ==
    {WriterFail(NewWriter(at), DestFailed) : at \in 0..PositionMax}
      \cup {NewWriter(at) : at \in 0..PositionMax}
      \cup {WriterMoveCursor(WriterSetBuffer(NewWriter(at), 1, room), written) :
              at \in 0..PositionMax, room \in 1..MaxRoom, written \in 0..MaxRoom}

\* Writer's invariant: the positions of the buffer do not overflow.
WriterValid(x) ==
    /\ x.start <= x.cursor
    /\ x.cursor <= x.limit
    /\ x.start_pos + (x.limit - x.start) <= PositionMax

\* No reader exists: a Writer model runs alone.
NoReader ==
    /\ NoZstdReader
    /\ file = None
    /\ readers = <<>>
    /\ sink = None

\* SyncBuffer() sets the cursor of the destination to a place in its
\* buffer. It does not after the writer failed with an overflow over a
\* destination that still holds a buffer: the writer's cursor is nullptr
\* then.
SyncDefined(v) == v.d.start <= v.p.cursor /\ v.p.cursor <= v.d.limit

\* The operations that call SyncBuffer() whether the writer is ok or not.
SyncsFailed(op) ==
    \/ op = "move" /\ ~IsStable(psw.kind)
    \/ op = "SetWriteSizeHint" /\ IsOwning(psw.kind)

\* The state after an operation `op` that ended in the world `v`; `written`
\* counts the bytes the user has put into the writer since `origin`, the
\* position of the destination when the writer was attached to it; `was` and
\* `before` are the destination and the writer before a Flush().
PswBecomes(v, op, args, written, origin) ==
    /\ step.op # "undefined"
    /\ SyncsFailed(op) => SyncDefined(PswWorld(psw, destination))
    /\ psw' = v.p
    /\ destination' = v.d
    /\ calls' = v.calls
    /\ step' = [op |-> op, args |-> args, returned |-> v.returned, was_ok |-> ok(psw),
                was |-> IF op = "Flush" THEN destination ELSE NewWriter(0),
                before |-> IF op = "Flush" THEN psw ELSE NewPsw(0, "Writer*"),
                written |-> written, origin |-> origin]
    /\ UNCHANGED <<fill, file, readers, sink, zvars, dvars, pvars, tvars, cvars>>

PswInit ==
    \E d \in Destinations, base_pos \in 0..PositionMax, kind \in DestKinds :
      /\ WriterValid(d)
      /\ psw = PswConstructed(d, base_pos, kind).p
      /\ destination = PswConstructed(d, base_pos, kind).d
      /\ fill = None
      /\ calls = <<>>
      /\ step = [op |-> "new", args |-> <<base_pos>>, returned |-> TRUE,
                 was_ok |-> TRUE, was |-> NewWriter(0),
                 before |-> NewPsw(0, "Writer*"), written |-> 0,
                 origin |-> WriterPos(d)]
      /\ NoReader
      /\ NoDigester
      /\ NoPool
      /\ NoThreads
      /\ NoDescriptors

Here == PswWorld(psw, destination)

\* Such an operation set the cursor of the destination outside its buffer,
\* which is undefined: a build with assertions stops in set_cursor(), the
\* writer and its destination as they were; a build without them goes on,
\* MakeBuffer() computing with the cursor it finds. The model follows
\* neither any further.
DoPswUndefined ==
    \E op \in {"move", "SetWriteSizeHint"} :
      \E v \in {Here}
                 \cup (IF op = "move"
                       THEN {PswMoveDest(Here, shift) :
                               shift \in {s \in {-Relocation, 0, Relocation} :
                                            destination.start + s \in 1..(2 * Relocation)}}
                       ELSE {PswSetWriteSizeHintImpl(Here, write_size_hint) :
                               write_size_hint \in {Unknown, 0, PositionMax}}) :
        /\ step.op # "undefined"
        /\ SyncsFailed(op)
        /\ ~SyncDefined(Here)
        /\ psw' = v.p
        /\ destination' = v.d
        /\ step' = [step EXCEPT !.op = "undefined", !.args = <<op>>, !.was_ok = ok(psw)]
        /\ UNCHANGED <<fill, calls, file, readers, sink, zvars, dvars, pvars, tvars, cvars>>

DoPswWrite ==
    \E length \in 1..MaxRoom :
      /\ length <= WriterAvailable(psw)
      /\ PswBecomes(PswWriteFast(Here, length), "Write", <<length>>,
                    step.written + length, step.origin)

DoPswPush ==
    \E o \in PushOutcomes :
      /\ WriterAvailable(psw) = 0
      /\ PswBecomes(PswPushSlow(Here, o), "Push", <<o>>, step.written, step.origin)

DoPswFlush ==
    \E flush_type \in FlushTypes, o \in FlushOutcomes :
      PswBecomes(PswFlushImpl(Here, flush_type, o), "Flush", <<flush_type, o>>,
                 step.written, step.origin)

DoPswSetWriteSizeHint ==
    \E write_size_hint \in {Unknown, 0, PositionMax} :
      PswBecomes(PswSetWriteSizeHintImpl(Here, write_size_hint), "SetWriteSizeHint",
                 <<write_size_hint>>, step.written, step.origin)

DoPswMove ==
    \E shift \in {-Relocation, 0, Relocation} :
      /\ destination.start = NullPtr => shift = 0
      /\ destination.start # NullPtr => destination.start + shift \in 1..(2 * Relocation)
      /\ PswBecomes(PswMoveDest(Here, shift), "move", <<shift>>, step.written, step.origin)

DoPswReset ==
    \E base_pos \in 0..PositionMax :
      /\ ~IsOwning(psw.kind)
      /\ PswBecomes(PswReset(Here, destination, base_pos), "Reset", <<base_pos>>, 0,
                    WriterPos(destination))

PswNext ==
    \/ DoPswWrite
    \/ DoPswPush
    \/ DoPswFlush
    \/ DoPswSetWriteSizeHint
    \/ DoPswMove
    \/ DoPswReset
    \/ DoPswUndefined

PswSpec == PswInit /\ [][PswNext]_vars

\* ------------------------------------------------- properties: C22

\* The last operation ended with MakeBuffer().
Crossed ==
    \/ step.op \in {"new", "Reset", "Push"}
    \/ step.op = "Flush" /\ step.was_ok
    \/ step.op = "move" /\ ~IsStable(psw.kind)
    \/ step.op = "SetWriteSizeHint" /\ IsOwning(psw.kind)

Overflowed(x) ==
    /\ x.status.code = "ResourceExhausted"
    /\ x.status.msg = "Writer position overflow"

NoBuffer(x) == x.start = NullPtr /\ x.cursor = NullPtr /\ x.limit = NullPtr

\* The position the writer reports, were Position wide enough.
Unwrapped(x) == x.start_pos + WriterStartToCursor(x)

\* C22 as it is stated: the position an ok writer reports is never a
\* wrapped one.
C22_AsStated == ok(psw) => WriterPos(psw) = Unwrapped(psw)

\* C22: in every state in which the writer is ok, the position of the
\* destination plus base_pos is at most the largest Position and is the
\* writer's start_pos; whenever an operation finds the destination beyond
\* that, the writer fails with ResourceExhausted, "Writer position
\* overflow", and has no buffer. A wrapped position is reported only after
\* bytes were written into a buffer that reaches beyond the largest
\* position.
C22_Overflow ==
    /\ ok(psw) =>
         /\ WriterPos(destination) + psw.base_pos <= PositionMax
         /\ psw.start_pos = WriterPos(destination) + psw.base_pos
         /\ WriterPos(psw) # Unwrapped(psw) =>
              /\ psw.cursor > psw.start
              /\ psw.start_pos + (psw.limit - psw.start) > PositionMax
    /\ (Crossed /\ WriterPos(destination) + psw.base_pos > PositionMax) =>
         /\ ~ok(psw)
         /\ NoBuffer(psw)
         /\ step.was_ok => Overflowed(psw)

\* A Push() found the destination, itself ok, too far for base_pos.
C22_Witness ==
    /\ step.op = "Push"
    /\ step.was_ok
    /\ Overflowed(psw)
    /\ NoBuffer(psw)
    /\ ok(destination)
    /\ psw.base_pos > 0
    /\ WriterPos(destination) + psw.base_pos = PositionMax + 1

\* An ok writer reports a wrapped position.
C22_WrappedReached ==
    /\ ok(psw)
    /\ step.op = "Write"
    /\ Unwrapped(psw) = PositionMax + 1
    /\ WriterPos(psw) = 0

\* ------------------------------------------------- properties: C23

\* The destination as SyncBuffer() would leave it now.
Synced == PswSyncBuffer(Here).d

\* C23: whenever the writer is ok, start() is the destination's cursor(),
\* limit() its limit() and start_pos() its pos() plus base_pos; the bytes
\* written into the shared buffer are those the destination counts once
\* its cursor is set, and after every operation that ended with
\* MakeBuffer() (construction, Reset, Push, Flush, SetWriteSizeHint and
\* move) the writer reports the destination's position plus base_pos, the
\* destination having counted every byte written exactly once.
C23_Invariants ==
    ok(psw) =>
      /\ psw.start = destination.cursor
      /\ psw.limit = destination.limit
      /\ psw.start_pos = WriterPos(destination) + psw.base_pos
      /\ WriterPos(Synced) = step.origin + step.written
      /\ WriterPos(psw) = (WriterPos(Synced) + psw.base_pos) % (PositionMax + 1)
      /\ Crossed =>
           /\ psw.cursor = psw.start
           /\ WriterPos(psw) = WriterPos(destination) + psw.base_pos
           /\ WriterPos(destination) = step.origin + step.written

\* Bytes were written through a shifted writer and a Flush() handed them
\* to the destination, which still has a buffer.
C23_Witness ==
    /\ step.op = "Flush"
    /\ ok(psw)
    /\ step.written >= 1
    /\ psw.base_pos >= 1
    /\ destination.cursor # NullPtr
    /\ psw.start = destination.cursor
    /\ destination.cursor > destination.start
    /\ WriterPos(destination) = step.origin + step.written

C23_MovedReached ==
    /\ step.op = "move"
    /\ psw.kind = "inline"
    /\ step.args[1] # 0
    /\ ok(psw)
    /\ step.written >= 1
    /\ psw.start = destination.cursor
    /\ WriterAvailable(psw) >= 1

C23_HintReached ==
    /\ step.op = "SetWriteSizeHint"
    /\ IsOwning(psw.kind)
    /\ ok(psw)
    /\ step.written >= 1
    /\ calls # <<>>
    /\ WriterPos(psw) = WriterPos(destination) + psw.base_pos

C23_ResetReached ==
    /\ step.op = "Reset"
    /\ ok(psw)
    /\ step.origin >= 1
    /\ psw.base_pos >= 1

\* ------------------------------------------------- properties: C24

\* The last step was Flush(flush_type), the destination doing `o`.
Flushing == step.op = "Flush"

FlushedDest == [call |-> "Flush", args |-> <<step.args[1]>>]

\* C24: Flush(FromObject) of an ok writer that does not own its
\* destination does not call the destination's Flush(): it sets the
\* destination's cursor and returns true. Any other flush of an ok writer
\* calls the destination's Flush() once, with the same flush type, and
\* returns what it returned. Flush() of a failed writer returns false,
\* calls nothing and leaves the destination and the writer as they were.
C24_Flush ==
    Flushing =>
      IF ~step.was_ok
      THEN /\ step.returned = FALSE
           /\ calls = <<>>
           /\ destination = step.was
           /\ psw = step.before
      ELSE IF step.args[1] = "FromObject" /\ ~IsOwning(psw.kind)
      THEN /\ calls = <<>>
           /\ step.returned = TRUE
           /\ destination = WriterSetCursor(step.was, step.before.cursor)
      ELSE /\ calls = <<FlushedDest>>
           /\ step.returned = (step.args[2].outcome # "fails")
           /\ step.returned = ok(destination)
           /\ step.args[2].outcome = "keeps" =>
                destination = WriterSetCursor(step.was, step.before.cursor)
           /\ step.args[2].outcome = "fails" => ~ok(psw)

\* An object flush of a writer over a Writer* handed bytes over and
\* flushed nothing.
C24_Witness ==
    /\ Flushing
    /\ step.was_ok
    /\ step.args[1] = "FromObject"
    /\ psw.kind = "Writer*"
    /\ calls = <<>>
    /\ step.returned
    /\ step.was.cursor < destination.cursor

C24_ProcessReached ==
    /\ Flushing
    /\ step.was_ok
    /\ step.args[1] = "FromProcess"
    /\ psw.kind = "Writer*"
    /\ calls = <<FlushedDest>>
    /\ ~step.returned
    /\ ~ok(destination)

C24_OwnedReached ==
    /\ Flushing
    /\ step.was_ok
    /\ step.args[1] = "FromObject"
    /\ IsOwning(psw.kind)
    /\ calls = <<FlushedDest>>
    /\ step.returned

C24_FailedReached ==
    /\ Flushing
    /\ ~step.was_ok
    /\ ok(destination)
    /\ destination.start # NullPtr
    /\ step.args[1] = "FromMachine"
    /\ ~step.returned

\* ----------------------------------------------------- Crc32cDigester

\* uint32_t: 32 bits, the lowest first.
CrcWidth == 32

\* The bits of a number below 2^n, the lowest first, in a word of 32.
Word(value, n) == [i \in 1..CrcWidth |-> IF i <= n THEN (value \div 2 ^ (i - 1)) % 2 ELSE 0]

\* The word with the hexadecimal digits `digits`, the highest first.
Hex(digits) == [i \in 1..CrcWidth |-> (digits[8 - ((i - 1) \div 4)] \div 2 ^ ((i - 1) % 4)) % 2]

Xor(a, b) == [i \in 1..CrcWidth |-> (a[i] + b[i]) % 2]

ShiftRight(a) == [i \in 1..CrcWidth |-> IF i = CrcWidth THEN 0 ELSE a[i + 1]]

AllOnes == [i \in 1..CrcWidth |-> 1]

\* The polynomial 0x11edc6f41 without its highest bit, bit-reversed:
\* 0x82f63b78.
Crc32cPoly == Hex(<<8, 2, 15, 6, 3, 11, 7, 8>>)

\* `n` steps of the division by the polynomial.
RECURSIVE Divided(_, _)
Divided(crc, n) ==
    IF n = 0 THEN crc
    ELSE Divided(IF crc[1] = 1 THEN Xor(ShiftRight(crc), Crc32cPoly) ELSE ShiftRight(crc),
                 n - 1)

RECURSIVE Crc32cBytes(_, _)
Crc32cBytes(crc, data) ==
    IF data = <<>> THEN crc
    ELSE Crc32cBytes(Divided(Xor(crc, Word(Head(data), 8)), 8), Tail(data))

\* A bug to tell apart: the result is not inverted back.
Crc32cExtend_Raw(crc, data) == Crc32cBytes(Xor(crc, AllOnes), data)

\* crc32c::Extend(crc, data, count).
Crc32cExtend(crc, data) == Xor(Crc32cBytes(Xor(crc, AllOnes), data), AllOnes)

\* Crc32cDigester(): crc_ = 0. `fed` is what has been written to it.
NewCrc32cDigester == [crc |-> Word(0, 0), fed |-> <<>>]

Crc32cWrite(g, data) == [crc |-> Crc32cExtend(g.crc, data), fed |-> g.fed \o data]

Crc32cDigest(g) == g.crc

\* The bytes written in the model, the longest string written at once and
\* the most written to one digester, and the number of digesters.
Bytes == {0, 72, 255}

MaxWrite == 2

MaxFed == 3

MaxDigesters == 2

DigesterBecomes(gs, op, i, args, returned) ==
    /\ digesters' = gs
    /\ step' = [op |-> op, i |-> i, args |-> args, returned |-> returned,
                before |-> digesters]
    /\ UNCHANGED <<file, readers, sink, calls, zvars, wvars, pvars, tvars, cvars>>

CrcInit ==
    /\ digesters = <<NewCrc32cDigester>>
    /\ step = [op |-> "new", i |-> 1, args |-> <<>>, returned |-> Word(0, 0),
               before |-> <<>>]
    /\ calls = <<>>
    /\ NoReader
    /\ NoWriter
    /\ NoPool
    /\ NoThreads
    /\ NoDescriptors

DoCrcWrite ==
    \E i \in 1..Len(digesters), data \in SeqsUpTo(Bytes, MaxWrite) :
      /\ Len(digesters[i].fed) + Len(data) <= MaxFed
      /\ DigesterBecomes([digesters EXCEPT ![i] = Crc32cWrite(@, data)], "Write", i,
                         <<data>>, Word(0, 0))

DoCrcDigest ==
    \E i \in 1..Len(digesters) :
      DigesterBecomes(digesters, "Digest", i, <<>>, Crc32cDigest(digesters[i]))

\* The copy constructor and the copy assignment.
DoCrcCopy ==
    \E i \in 1..Len(digesters), to \in 1..MaxDigesters :
      /\ to <= Len(digesters) + 1
      /\ to # i
      /\ DigesterBecomes(IF to > Len(digesters) THEN Append(digesters, digesters[i])
                         ELSE [digesters EXCEPT ![to] = digesters[i]],
                         "copy", i, <<to>>, Word(0, 0))

CrcNext == DoCrcWrite \/ DoCrcDigest \/ DoCrcCopy

CrcSpec == CrcInit /\ [][CrcNext]_vars

\* ------------------------------------------------- properties: C25

\* The digester the last step was about, before it and now.
DigesterBefore == step.before[step.i]

Digester == digesters[step.i]

\* C25: a digester holds the CRC32C of the concatenation of everything
\* written to it, however it was split into Write() calls: a Write(data)
\* leaves what Write(a) followed by Write(b) leaves for every split of data
\* into a and b, and what one Write() of all the bytes written so far
\* leaves in a new digester. Write of the empty string and Digest() change
\* no digester, Digest() returns crc_, a copy starts equal to its original,
\* and a Write() to one digester changes no other.
C25_Associative ==
    /\ \A i \in 1..Len(digesters) :
         digesters[i].crc = Crc32cWrite(NewCrc32cDigester, digesters[i].fed).crc
    /\ step.op = "Write" =>
         /\ \A n \in 0..Len(step.args[1]) :
              Digester.crc = Crc32cWrite(Crc32cWrite(DigesterBefore, Take(step.args[1], n)),
                                         Drop(step.args[1], n)).crc
         /\ step.args[1] = <<>> => digesters = step.before
         /\ \A j \in 1..Len(digesters) : j # step.i => digesters[j] = step.before[j]
    /\ step.op = "Digest" =>
         /\ digesters = step.before
         /\ step.returned = Digester.crc
    /\ step.op = "copy" =>
         /\ digesters[step.args[1]] = digesters[step.i]
         /\ \A j \in 1..Len(step.before) : j # step.args[1] => digesters[j] = step.before[j]

\* "H" then two more bytes were written to a digester in two calls, while
\* its copy stayed at the CRC32C of "H", 0x99df1622.
C25_Witness ==
    /\ step.op = "Write"
    /\ Len(digesters) = 2
    /\ step.i = 1
    /\ Len(step.args[1]) = 2
    /\ DigesterBefore.fed = <<72>>
    /\ digesters[2].fed = <<72>>
    /\ digesters[2].crc = Hex(<<9, 9, 13, 15, 1, 6, 2, 2>>)
    /\ digesters[1].crc # digesters[2].crc

\* Zero bytes change the digest too: "\0" has CRC32C 0x527d5351.
C25_ZeroByteReached ==
    /\ digesters[1].fed = <<0>>
    /\ digesters[1].crc = Hex(<<5, 2, 7, 13, 5, 3, 5, 1>>)

\* ------------------------------------------- ZstdReader: NewReader()

\* NewReader(initial_pos) of the source: a reader of its own over the same
\* bytes, or nullptr from a source that does not support it or has failed,
\* which fails the source.
SrcNewReader(s, initial_pos, supported) ==
    IF supported /\ SrcOk(s)
    THEN [s |-> s,
          reader |-> [s EXCEPT !.pos = Min(initial_pos, s.len), !.lim = Min(initial_pos, s.len),
                               !.broken = FALSE]]
    ELSE [s |-> IF SrcOk(s)
                THEN [s EXCEPT !.status = Status("Unimplemented",
                                                 "Reader::NewReader() not supported")]
                ELSE s,
          reader |-> NullReader]

\* ZstdReader<std::unique_ptr<Reader>>(compressed_reader, options), then
\* Seek(initial_pos).
ZstdChild(w, compressed_reader, initial_pos, created) ==
    Seek(Initialize([z |-> NewReader(w.z.growing_source, w.z.buf_len), s |-> compressed_reader,
                     decoded |-> <<>>, resumed |-> FALSE, ri |-> NoCall], created),
         initial_pos, created).w

\* A bug to tell apart: a failed reader still asks its source.
ZstdNewReaderImpl_Unchecked(w, initial_pos, supported, created) ==
    LET n == SrcNewReader(w.s, RewindTarget(w.z), supported) IN
    IF n.reader = NullReader
    THEN [w |-> FailWithoutAnnotation([w EXCEPT !.s = n.s], AnnotateOverSrc(w, n.s.status)),
          ret |-> NullReader]
    ELSE [w |-> w, ret |-> ZstdChild(w, n.reader, initial_pos, created)]

ZstdNewReaderImpl(w, initial_pos, supported, created) ==
    IF ~ok(w.z) THEN [w |-> w, ret |-> NullReader]
    ELSE LET n == SrcNewReader(w.s, RewindTarget(w.z), supported) IN
         IF n.reader = NullReader
         THEN [w |-> FailWithoutAnnotation([w EXCEPT !.s = n.s],
                                           AnnotateOverSrc(w, n.s.status)),
               ret |-> NullReader]
         ELSE [w |-> w, ret |-> ZstdChild(w, n.reader, initial_pos, created)]

\* ------------------------------------------ both readers, once failed

\* A ZstdReader or an FdReader, each running as in its own model.
LatchInit == Init \/ FdInit

LatchNext ==
    \/ readers = <<>> /\ Next
    \/ readers # <<>> /\ FdNext

LatchSpec == LatchInit /\ [][LatchNext]_vars

\* What a failed ZstdReader keeps: status, limit_pos, exact_size and the
\* decompression context.
ZstdKept(z) == <<z.status, z.limit_pos, z.exact_size, z.decompressor>>

\* A step of a failed ZstdReader: it stays failed with its status, and a
\* seek to before the buffer or Size() returns failure and keeps the rest
\* and the position of the source.
ZstdLatched ==
    (readers = <<>> /\ ~ok(zr)) =>
      /\ zr'.status = zr.status
      /\ last'.op \in {"SeekBack", "Size"} =>
           /\ last'.ret = FALSE
           /\ ZstdKept(zr') = ZstdKept(zr)
           /\ src'.pos = src.pos
           /\ src'.status = src.status

\* NewReader() on a failed ZstdReader, whatever the source would do.
ZstdRefuses ==
    (readers = <<>> /\ ~ok(zr)) =>
      \A initial_pos \in 0..PositionMax, supported \in BOOLEAN :
        /\ ZstdNewReaderImpl(World(FALSE), initial_pos, supported, TRUE).ret = NullReader
        /\ ZstdNewReaderImpl(World(FALSE), initial_pos, supported, TRUE).w = World(FALSE)

FdLatched ==
    readers # <<>> =>
      \A i \in 1..Len(readers) : ~ok(readers[i]) => readers'[i].status = readers[i].status

\* The last step ran on a failed FdReader: a seek to before limit_pos,
\* or Size().
FdAfterFailure ==
    /\ readers # <<>>
    /\ ~ok(step.before)
    /\ \/ step.op = "Size"
       \/ step.op = "Seek" /\ step.args.new_pos < step.before.limit_pos

FdRefuses ==
    /\ FdAfterFailure =>
         /\ step.op = "Seek" => step.returned = FALSE
         /\ step.op = "Size" => step.returned = Unknown
         /\ calls = <<>>
         /\ file = step.was
         /\ readers[step.i] = step.before
    /\ (readers # <<>> /\ ~ok(readers[1])) =>
         \A initial_pos \in Offsets :
           /\ NewReaderImpl(Now, initial_pos).returned = NullReader
           /\ NewReaderImpl(Now, initial_pos).r = readers[1]
           /\ NewReaderImpl(Now, initial_pos).k = file
           /\ NewReaderImpl(Now, initial_pos).calls = <<>>

\* C26: a failed ZstdReader or FdReader keeps its status in every later
\* step, and a seek to before the buffer, Size() and NewReader() on it
\* return failure (false, nullopt, nullptr) leaving status, limit_pos,
\* exact_size, the decompression context, the position of the source and
\* the file offset as they were, with no system call.
C26_Latched ==
    /\ [][ZstdLatched /\ FdLatched]_vars
    /\ [](ZstdRefuses /\ FdRefuses)

\* Size() was called on a failed ZstdReader that holds a decompression
\* context.
C26_Witness ==
    /\ readers = <<>>
    /\ ~ok(zr)
    /\ last.op = "Size"
    /\ last.ret = FALSE
    /\ zr.status.code # "Unimplemented"
    /\ zr.decompressor # NullDctx

C26_SeekBackReached ==
    /\ readers = <<>>
    /\ ~ok(zr)
    /\ last.op = "SeekBack"
    /\ zr.limit_pos > 0
    /\ zr.status.code \notin {"Unimplemented", "DataLoss"}

C26_FdSeekReached ==
    /\ FdAfterFailure
    /\ step.op = "Seek"
    /\ step.before.supports_random_access
    /\ step.before.limit_pos > 0

C26_FdSizeReached ==
    /\ FdAfterFailure
    /\ step.op = "Size"
    /\ step.before.exact_size = Unknown
    /\ step.before.supports_random_access

\* ------------------------------------------------- properties: C27

Capabilities(r) == <<r.supports_random_access, r.has_independent_pos>>

\* C27: after every step (a Read, Copy, Seek or Size, whether it succeeds,
\* is cut short or fails) supports_random_access and has_independent_pos
\* of the FdReader are what they were before it, as InitializePos() left
\* them, and NewReader() at any position, applied in any state, leaves
\* them too.
C27_Capabilities ==
    /\ Capabilities(readers[step.i]) = Capabilities(step.before)
    /\ \A initial_pos \in Offsets :
         Capabilities(NewReaderImpl(Now, initial_pos).r) = Capabilities(readers[1])

\* A read() failed on a reader with random access; it is failed and still
\* has random access.
C27_Witness ==
    /\ step.op = "Read"
    /\ ok(step.before)
    /\ ~ok(readers[1])
    /\ readers[1].status.code[1] = "errno"
    /\ readers[1].supports_random_access
    /\ Capabilities(readers[1]) = Capabilities(step.before)

C27_SeekFailedReached ==
    /\ step.op = "Seek"
    /\ ok(step.before)
    /\ ~ok(readers[1])
    /\ calls # <<>>
    /\ readers[1].supports_random_access
    /\ readers[1].has_independent_pos

C27_CopyReached ==
    /\ step.op = "Copy"
    /\ ok(step.before)
    /\ calls # <<>>
    /\ ~readers[1].supports_random_access
    /\ Capabilities(readers[1]) = Capabilities(step.before)

\* ----------------------------- the pool of decompression contexts

\* The ZstdReaders sharing the pool, and the contexts the pool keeps.
MaxDecoders == 3

PoolCapacity == 1

\* A ZSTD_DCtx: its identity, whether a decoding session is under way, and
\* its parameters ZSTD_d_stableOutBuffer and ZSTD_d_windowLogMax.
NewContext(id) == [id |-> id, session |-> FALSE, stable |-> FALSE, window |-> FALSE]

\* decompressor_ == nullptr.
NullContext == [id |-> 0, session |-> FALSE, stable |-> FALSE, window |-> FALSE]

\* ZSTD_DCtx_reset(decompressor, ZSTD_reset_session_and_parameters): before
\* zstd 1.4.6 it leaves ZSTD_d_stableOutBuffer as it is
\* (https://github.com/facebook/zstd/issues/2331).
ZSTD_DCtx_reset(c, old_zstd) ==
    [c EXCEPT !.session = FALSE, !.window = FALSE, !.stable = IF old_zstd THEN @ ELSE FALSE]

\* A bug to tell apart: the workaround is left out.
Recycled_NoWorkaround(c, old_zstd) == ZSTD_DCtx_reset(c, old_zstd)

\* The second argument of Get(): the reset and, compiled for the old
\* versions, ZSTD_DCtx_setParameter(decompressor, ZSTD_d_stableOutBuffer, 0).
Recycled(c, old_zstd) ==
    IF old_zstd THEN [ZSTD_DCtx_reset(c, old_zstd) EXCEPT !.stable = FALSE]
    ELSE ZSTD_DCtx_reset(c, old_zstd)

\* The contexts in use or kept.
ContextsOf(q, ds) ==
    {q.idle[i].id : i \in 1..Len(q.idle)}
      \cup {ds[d].decompressor.id : d \in {e \in DOMAIN ds : ds[e].decompressor # NullContext}}

\* A bug to tell apart: Get() hands out a kept context and keeps it.
PoolGet_Kept(q, ds, created) ==
    IF q.idle # <<>> THEN [q |-> q, got |-> Head(q.idle)]
    ELSE IF ~created THEN [q |-> q, got |-> NullContext]
    ELSE [q |-> q,
          got |-> NewContext(CHOOSE id \in 1..(MaxDecoders + PoolCapacity) :
                               id \notin ContextsOf(q, ds))]

\* RecyclingPool::Get(factory, recycler): a kept context if there is one,
\* or else what the factory makes (ZSTD_createDCtx(), which may fail).
PoolGet(q, ds, created) ==
    IF q.idle # <<>> THEN [q |-> [q EXCEPT !.idle = Tail(@)], got |-> Head(q.idle)]
    ELSE IF ~created THEN [q |-> q, got |-> NullContext]
    ELSE [q |-> q,
          got |-> NewContext(CHOOSE id \in 1..(MaxDecoders + PoolCapacity) :
                               id \notin ContextsOf(q, ds))]

\* The handle is dropped: the context is recycled and kept if the pool has
\* room, destroyed otherwise.
PoolPut(q, c) ==
    IF c = NullContext THEN q
    ELSE IF Len(q.idle) < PoolCapacity
    THEN [q EXCEPT !.idle = <<Recycled(c, q.old_zstd)>> \o @]
    ELSE q

\* A ZstdReader as the pool sees it: its context, and whether this
\* session set ZSTD_d_stableOutBuffer itself.
NewDecoder ==
    [phase |-> "new", decompressor |-> NullContext, just_initialized |-> FALSE,
     failed |-> FALSE, enabled |-> FALSE]

\* The world of an operation of decoder `d`: the pool and the decoders.
PoolWorld(q, ds) == [q |-> q, ds |-> ds]

\* decompressor_.reset().
Released(v, d) ==
    [q |-> PoolPut(v.q, v.ds[d].decompressor),
     ds |-> [v.ds EXCEPT ![d].decompressor = NullContext, ![d].enabled = FALSE]]

\* InitializeDecompressor(): Get(), then ZSTD_d_windowLogMax is set.
PoolInitializeDecompressor(v, d, created) ==
    LET g == PoolGet(v.q, v.ds, created) IN
    IF g.got = NullContext
    THEN [q |-> g.q, ds |-> [v.ds EXCEPT ![d].failed = TRUE]]
    ELSE [q |-> g.q,
          ds |-> [v.ds EXCEPT ![d].decompressor = [g.got EXCEPT !.window = TRUE],
                              ![d].just_initialized = TRUE, ![d].enabled = FALSE]]

\* ReadInternal(): the first call of a session sets
\* ZSTD_d_stableOutBuffer if the source does not grow and the `whole`
\* frame, of a known size, fits the destination; ZSTD_decompressStream()
\* then runs, and at the end of the frame the context is released; on an
\* error it is kept.
PoolReadInternal(v, d, whole, outcome) ==
    LET r == v.ds[d]
        stable == r.just_initialized /\ whole
        c == [r.decompressor EXCEPT !.stable = IF stable THEN TRUE ELSE @,
                                    !.session = TRUE]
        read == [v EXCEPT !.ds[d].decompressor = c, !.ds[d].just_initialized = FALSE,
                          !.ds[d].enabled = r.enabled \/ stable]
    IN  IF outcome = "end" THEN Released(read, d)
        ELSE IF outcome = "error" THEN [read EXCEPT !.ds[d].failed = TRUE]
        ELSE read

\* Done().
PoolDone(v, d) == [Released(v, d) EXCEPT !.ds[d].phase = "closed"]

\* The step of decoder `d` that leads to world `v`.
PoolBecomes(v, op, d, args) ==
    /\ pool' = v.q
    /\ decoders' = v.ds
    /\ step' = [op |-> op, i |-> d, args |-> args, before |-> [q |-> pool, held |-> decoders[d].decompressor]]
    /\ UNCHANGED <<file, readers, sink, calls, zvars, wvars, dvars, tvars, cvars>>

PoolInit ==
    /\ \E old_zstd \in BOOLEAN : pool = [idle |-> <<>>, old_zstd |-> old_zstd]
    /\ decoders = [d \in 1..MaxDecoders |-> NewDecoder]
    /\ step = [op |-> "new", i |-> 1, args |-> <<>>, before |-> [q |-> None, held |-> NullContext]]
    /\ calls = <<>>
    /\ NoReader
    /\ NoWriter
    /\ NoDigester
    /\ NoThreads
    /\ NoDescriptors

Then == PoolWorld(pool, decoders)

\* The constructor or Reset(): Initialize() calls InitializeDecompressor().
DoPoolInitialize ==
    \E d \in 1..MaxDecoders, created \in BOOLEAN :
      /\ decoders[d].phase \in {"new", "closed"}
      /\ PoolBecomes(PoolInitializeDecompressor(
                       [Then EXCEPT !.ds[d] = [NewDecoder EXCEPT !.phase = "open"]],
                       d, created),
                     "Initialize", d, <<>>)

\* PullSlow() or ReadSlow() of a healthy reader reaches ReadInternal(),
\* which decodes only while it holds a context.
DoPoolRead ==
    \E d \in 1..MaxDecoders, whole \in BOOLEAN, outcome \in {"more", "end", "error"} :
      /\ decoders[d].phase = "open"
      /\ ~decoders[d].failed
      /\ decoders[d].decompressor # NullContext
      /\ PoolBecomes(PoolReadInternal(Then, d, whole, outcome), "ReadInternal", d,
                     <<outcome>>)

\* SeekBehindBuffer() going back, up to src.Seek(): the context is released.
DoPoolRewind ==
    \E d \in 1..MaxDecoders :
      /\ decoders[d].phase = "open"
      /\ ~decoders[d].failed
      /\ PoolBecomes([Released(Then, d) EXCEPT !.ds[d].phase = "rewinding"],
                     "Rewind", d, <<>>)

\* SeekBehindBuffer() from src.Seek() on: if the source seeks, a context
\* is acquired again.
DoPoolRewound ==
    \E d \in 1..MaxDecoders, sought \in BOOLEAN, created \in BOOLEAN :
      /\ decoders[d].phase = "rewinding"
      /\ PoolBecomes(IF sought
                     THEN PoolInitializeDecompressor([Then EXCEPT !.ds[d].phase = "open"],
                                                     d, created)
                     ELSE [Then EXCEPT !.ds[d].phase = "open", !.ds[d].failed = TRUE],
                     "Rewound", d, <<>>)

\* Close().
DoPoolDone ==
    \E d \in 1..MaxDecoders :
      /\ decoders[d].phase = "open"
      /\ PoolBecomes(PoolDone(Then, d), "Done", d, <<>>)

PoolNext == DoPoolInitialize \/ DoPoolRead \/ DoPoolRewind \/ DoPoolRewound \/ DoPoolDone

PoolSpec == PoolInit /\ [][PoolNext]_vars

\* The decoders that hold context `id`.
Holders(id) == {d \in 1..MaxDecoders : decoders[d].decompressor.id = id}

\* The kept contexts.
KeptContexts == {pool.idle[i] : i \in 1..Len(pool.idle)}

\* The last step released the context of its decoder.
JustReleased ==
    \/ step.op \in {"Rewind", "Done"}
    \/ step.op = "ReadInternal" /\ step.args[1] = "end"

\* C28: a decompression context is held by at most one ZstdReader at a
\* time and is not kept by the pool while held; a reader holds none after
\* the end of a frame, during a rewind before a new one is acquired, and
\* once closed; a released context that the pool keeps has been reset,
\* its session, its parameters and stableOutBuffer; hence stableOutBuffer
\* is in effect in a session only if that session enabled it, however the
\* decoders sharing the pool interleave.
C28_Exclusive ==
    /\ \A id \in 1..(MaxDecoders + PoolCapacity) :
         /\ Cardinality(Holders(id)) <= 1
         /\ Cardinality(Holders(id)) + Cardinality({c \in KeptContexts : c.id = id}) <= 1
    /\ Len(pool.idle) = Cardinality(KeptContexts)
    /\ \A d \in 1..MaxDecoders :
         /\ decoders[d].phase \in {"new", "rewinding", "closed"}
              => decoders[d].decompressor = NullContext
         /\ decoders[d].decompressor.stable => decoders[d].enabled
    /\ JustReleased =>
         /\ decoders[step.i].decompressor = NullContext
         /\ LET c == step.before.held IN
              /\ c # NullContext /\ Len(step.before.q.idle) < PoolCapacity
                   => Head(pool.idle) = NewContext(c.id)
              /\ c = NullContext \/ Len(step.before.q.idle) >= PoolCapacity
                   => pool = step.before.q
    /\ \A c \in KeptContexts : c = NewContext(c.id)

\* On the old zstd a reader releases a context on which its session had
\* set stableOutBuffer, the pool keeps it, and another reader is decoding.
C28_Witness ==
    /\ pool.old_zstd
    /\ JustReleased
    /\ step.before.held.stable
    /\ pool.idle # <<>>
    /\ Head(pool.idle).id = step.before.held.id
    /\ \E d \in 1..MaxDecoders : d # step.i /\ decoders[d].decompressor.session

\* A reader acquires a kept context while another reader is between the
\* release and the acquisition of its rewind.
C28_ReusedReached ==
    /\ step.op \in {"Initialize", "Rewound"}
    /\ step.before.q.idle # <<>>
    /\ decoders[step.i].decompressor.id = Head(step.before.q.idle).id
    /\ \E d \in 1..MaxDecoders : d # step.i /\ decoders[d].phase = "rewinding"

\* The pool is full, and the released context is destroyed.
C28_DestroyedReached ==
    /\ JustReleased
    /\ step.before.held # NullContext
    /\ Len(step.before.q.idle) = PoolCapacity

\* ------------------------------------ Writer: filling with a byte

\* The bytes a fill is asked to write; the longest fill.
FillBytes == {0, 120}

MaxFill == PositionMax

\* A Writer `w` with the bytes of its destination, by position, and the
\* call `f` under way.
FillWorld(w, data, f) == [w |-> w, data |-> data, f |-> f]

\* std::memset(cursor(), char, length); move_cursor(length).
WriterMemset(v, char, length) ==
    [v EXCEPT !.data = [p \in DOMAIN @ |->
                          IF WriterPos(v.w) <= p /\ p < WriterPos(v.w) + length
                          THEN char ELSE @[p]],
              !.w = WriterMoveCursor(@, length)]

\* PushSlow() of a destination that may break its promise: it may return
\* true and provide no room.
FillPushOutcomes == PushOutcomes \cup {NewBuffer(1, 0)}

\* Push(1, recommended_length): true at once if there is room, or else
\* what PushSlow() returns.
WriterPush(v, o) ==
    IF WriterAvailable(v.w) >= 1 THEN [v EXCEPT !.f.pushed = TRUE]
    ELSE LET pushed == DestPush(v.w, o) IN
         [v EXCEPT !.w = pushed, !.f.pushed = ok(pushed),
                   !.f.loyal = @ /\ (ok(pushed) => WriterAvailable(pushed) >= 1)]

\* No call is under way.
NoFill ==
    [pc |-> "idle", op |-> "none", body |-> "none", src |-> 0, n |-> 0, length |-> 0,
     returned |-> FALSE, pushed |-> FALSE, loyal |-> TRUE, origin |-> 0, odd |-> FALSE]

\* WriteZerosSlow(length) is entered.
WriteZerosSlow(v, length) ==
    [v EXCEPT !.f = [NoFill EXCEPT !.pc = "loop", !.op = "WriteZerosSlow",
                                   !.body = "WriteZerosSlow", !.n = length,
                                   !.length = length, !.origin = WriterPos(v.w)]]

\* WriteCharsSlow(length, char) is entered: zero goes to WriteZerosSlow().
WriteCharsSlow(v, length, char) ==
    IF char = 0 THEN [WriteZerosSlow(v, length) EXCEPT !.f.op = "WriteCharsSlow"]
    ELSE [v EXCEPT !.f = [NoFill EXCEPT !.pc = "loop", !.op = "WriteCharsSlow",
                                        !.body = "WriteCharsSlow", !.src = char,
                                        !.n = length, !.length = length,
                                        !.origin = WriterPos(v.w)]]

\* The byte the loop under way writes.
FillByte(f) == IF f.body = "WriteZerosSlow" THEN 0 ELSE f.src

\* A bug to tell apart: the bytes that filled the buffer are not taken
\* off the length.
FillLoop_NotCounted(v, o) ==
    IF v.f.length > WriterAvailable(v.w)
    THEN LET available_length == WriterAvailable(v.w)
             filled == IF available_length > 0
                       THEN WriterMemset(v, FillByte(v.f), available_length)
                       ELSE v
             pushed == WriterPush(filled, o)
         IN  IF ~pushed.f.pushed
             THEN [pushed EXCEPT !.f.pc = "done", !.f.returned = FALSE]
             ELSE pushed
    ELSE [WriterMemset(v, FillByte(v.f), v.f.length)
            EXCEPT !.f.pc = "done", !.f.returned = TRUE, !.f.length = 0]

\* One turn of the loop of WriteZerosSlow() or WriteCharsSlow(), or, when
\* the rest fits, the last memset and the return.
FillLoop(v, o) ==
    IF v.f.length > WriterAvailable(v.w)
    THEN LET available_length == WriterAvailable(v.w)
             filled == IF available_length > 0
                       THEN [WriterMemset(v, FillByte(v.f), available_length)
                               EXCEPT !.f.length = @ - available_length]
                       ELSE v
             pushed == WriterPush(filled, o)
         IN  IF ~pushed.f.pushed
             THEN [pushed EXCEPT !.f.pc = "done", !.f.returned = FALSE]
             ELSE pushed
    ELSE [WriterMemset(v, FillByte(v.f), v.f.length)
            EXCEPT !.f.pc = "done", !.f.returned = TRUE, !.f.length = 0]

\* The call runs on, each PushSlow() doing what `os` says in turn, until
\* it returns or `os` is used up.
RECURSIVE FillRun(_, _)
FillRun(v, os) ==
    IF v.f.pc # "loop" \/ os = <<>> THEN v
    ELSE FillRun(FillLoop(v, Head(os)), Tail(os))

\* The step to world `v`.
FillBecomes(v, op, args) ==
    /\ destination' = v.w
    /\ fill' = [data |-> v.data, f |-> v.f]
    /\ step' = IF op = "loop" THEN step
               ELSE [op |-> op, args |-> args, data |-> fill.data, w |-> destination]
    /\ UNCHANGED <<psw, calls, file, readers, sink, zvars, dvars, pvars, tvars, cvars>>

FillInit ==
    /\ destination \in {d \in Destinations : WriterValid(d)}
    /\ fill = [data |-> [p \in 0..(PositionMax - 1) |-> 255], f |-> NoFill]
    /\ step = [op |-> "new", args |-> <<0, 0>>, data |-> fill.data, w |-> destination]
    /\ psw = None
    /\ calls = <<>>
    /\ NoReader
    /\ NoDigester
    /\ NoPool
    /\ NoThreads
    /\ NoDescriptors

Filling == FillWorld(destination, fill.data, fill.f)

\* WriteZeros(length) with too little room calls WriteZerosSlow(length).
DoWriteZerosSlow ==
    \E length \in 1..MaxFill :
      /\ fill.f.pc # "loop"
      /\ WriterAvailable(destination) < length
      /\ FillBecomes(WriteZerosSlow(Filling, length), "WriteZerosSlow", <<length, 0>>)

\* WriteChars(length, char) with too little room calls WriteCharsSlow().
DoWriteCharsSlow ==
    \E length \in 1..MaxFill, char \in FillBytes :
      /\ fill.f.pc # "loop"
      /\ WriterAvailable(destination) < length
      /\ FillBecomes(WriteCharsSlow(Filling, length, char), "WriteCharsSlow",
                     <<length, char>>)

\* A turn of the loop; `odd` tells one turn from the next.
DoFillLoop ==
    \E o \in FillPushOutcomes :
      /\ fill.f.pc = "loop"
      /\ FillBecomes([FillLoop(Filling, o) EXCEPT !.f.odd = ~@], "loop", <<>>)

FillNext == DoWriteZerosSlow \/ DoWriteCharsSlow \/ DoFillLoop

\* The call under way is not suspended for ever.
FillSpec == FillInit /\ [][FillNext]_vars /\ WF_vars(DoFillLoop)

\* Positions from..from+count-1 hold `char` and all others what they held
\* when the call began.
FilledWith(char, from, count) ==
    \A p \in DOMAIN fill.data :
      fill.data[p] = IF from <= p /\ p < from + count THEN char ELSE step.data[p]

\* The byte the call was asked to write.
Asked == IF step.op = "WriteZerosSlow" THEN 0 ELSE step.args[2]

FillReturned(value) ==
    /\ fill.f.pc = "done"
    /\ fill.f.returned = value

\* The two entries agree on a fill with zero, whatever the destination does.
ZeroAgrees ==
    \A length \in 1..MaxFill, os \in SeqsUpTo(FillPushOutcomes, MaxFill) :
      LET zeros == FillRun(WriteZerosSlow(Filling, length), os)
          chars == FillRun(WriteCharsSlow(Filling, length, 0), os)
      IN  /\ chars.w = zeros.w
          /\ chars.data = zeros.data
          /\ chars.f.pc = zeros.f.pc
          /\ chars.f.returned = zeros.f.returned

\* C29: when WriteZerosSlow(n) or WriteCharsSlow(n, c) returns true,
\* exactly the n positions from the position at the call hold 0
\* respectively c and pos() has advanced by n; when it returns false after
\* a failed Push, only a prefix of these positions was written;
\* WriteCharsSlow(n, 0) does what WriteZerosSlow(n) does under every
\* behaviour of the destination; and a call returns as long as each
\* successful Push has provided room.
C29_Fill ==
    /\ [](FillReturned(TRUE) =>
            /\ FilledWith(Asked, fill.f.origin, fill.f.n)
            /\ WriterPos(destination) = fill.f.origin + fill.f.n)
    /\ [](FillReturned(FALSE) =>
            /\ ~fill.f.pushed
            /\ \E count \in 0..(fill.f.n - 1) : FilledWith(Asked, fill.f.origin, count))
    /\ [](fill.f.pc # "loop" => ZeroAgrees)
    /\ (fill.f.pc = "loop" /\ fill.f.loyal) ~> (fill.f.pc = "done" \/ ~fill.f.loyal)

\* A fill with a byte other than zero has crossed two buffer boundaries
\* and returned true.
C29_Witness ==
    /\ FillReturned(TRUE)
    /\ step.op = "WriteCharsSlow"
    /\ Asked # 0
    /\ fill.f.n = MaxFill
    /\ WriterAvailable(step.w) = 1
    /\ destination.start_pos = fill.f.origin + 2

\* A fill has written some bytes and then a Push failed.
C29_PrefixReached ==
    /\ FillReturned(FALSE)
    /\ \E count \in 1..(fill.f.n - 1) : FilledWith(Asked, fill.f.origin, count)

\* WriteCharsSlow(n, 0) has filled across a buffer boundary.
C29_ZeroCharsReached ==
    /\ FillReturned(TRUE)
    /\ step.op = "WriteCharsSlow"
    /\ Asked = 0
    /\ destination.start_pos > fill.f.origin

\* A destination whose Push returns true without room keeps a call in
\* its loop.
C29_DisloyalReached ==
    /\ fill.f.pc = "loop"
    /\ ~fill.f.loyal

\* --------------------------------- NewReader() from several threads

MaxThreads == 2

\* A thread in NewReaderImpl(initial_pos): where it is, what it was called
\* with, whether its ZSTD_createDCtx() will succeed, and its locals
\* compressed_reader and reader.
NewThread ==
    [pc |-> "idle", initial_pos |-> 0, created |-> TRUE, compressed_reader |-> NullReader,
     reader |-> NullReader, returned |-> FALSE]

ThreadCalled(initial_pos, created) ==
    [NewThread EXCEPT !.pc = "check", !.initial_pos = initial_pos, !.created = created]

ThreadReturns(t, reader) == [t EXCEPT !.pc = "done", !.reader = reader, !.returned = TRUE]

\* The parent `p` (its reader p.r and what it reads from, p.k) and the
\* thread `t` at work on it.
Pair(p, t) == [p |-> p, t |-> t]

\* FdReaderBase::NewReaderImpl() up to the ok() check: a reader that
\* does not support NewReader() fails.
FdThreadCheck(v) ==
    IF ~SupportsNewReader(v.p.r)
    THEN [p |-> [v.p EXCEPT !.r = FdFail(v.p, v.p.r.random_access_status).r],
          t |-> ThreadReturns(v.t, NullReader)]
    ELSE IF ~ok(v.p.r) THEN [v EXCEPT !.t = ThreadReturns(@, NullReader)]
    ELSE [v EXCEPT !.t.pc = "construct"]

\* std::make_unique<FdReader<UnownedFd>>(src, options): the descriptor,
\* the filename, growing_source_ and the buffer options are read.
FdThreadConstruct(v) ==
    LET made == InitializePos(FdWorld(v.p.k,
                                      [NewFdReader(v.p.r.filename, v.p.r.growing_source, FALSE)
                                          EXCEPT !.buffer_options = v.p.r.buffer_options],
                                      NoSink, Undisturbed),
                              Unknown, v.t.initial_pos)
    IN  [p |-> [v.p EXCEPT !.k = made.k], t |-> [v.t EXCEPT !.pc = "size", !.reader = made.r]]

\* A bug to tell apart: the size is moved out of the parent.
FdThreadSize_Moved(v) ==
    [p |-> [v.p EXCEPT !.r.exact_size = Unknown],
     t |-> ThreadReturns(v.t, [v.t.reader EXCEPT !.exact_size = v.p.r.exact_size])]

\* reader->set_exact_size(exact_size()); ShareBufferTo(*reader); return.
FdThreadSize(v) ==
    [v EXCEPT !.t = ThreadReturns(@, [v.t.reader EXCEPT !.exact_size = v.p.r.exact_size])]

\* ZstdReaderBase::NewReaderImpl(): if (!ok()) return nullptr.
ZstdThreadCheck(v) ==
    IF ~ok(v.p.z) THEN [v EXCEPT !.t = ThreadReturns(@, NullReader)]
    ELSE [v EXCEPT !.t.pc = "source"]

\* src.NewReader(initial_compressed_pos_), and the failure if it is null.
ZstdThreadSource(v, supported) ==
    LET n == SrcNewReader(v.p.s, RewindTarget(v.p.z), supported) IN
    IF n.reader = NullReader
    THEN [p |-> FailWithoutAnnotation([v.p EXCEPT !.s = n.s], AnnotateOverSrc(v.p, n.s.status)),
          t |-> ThreadReturns(v.t, NullReader)]
    ELSE [v EXCEPT !.t.pc = "construct", !.t.compressed_reader = n.reader]

\* std::make_unique<ZstdReader<std::unique_ptr<Reader>>>(...):
\* growing_source_, the dictionary and the buffer options are read.
ZstdThreadConstruct(v) ==
    [v EXCEPT !.t.pc = "seek",
              !.t.reader = Initialize([z |-> NewReader(v.p.z.growing_source, v.p.z.buf_len),
                                       s |-> v.t.compressed_reader, decoded |-> <<>>,
                                       resumed |-> FALSE, ri |-> NoCall],
                                      v.t.created)]

\* reader->Seek(initial_pos); return reader.
ZstdThreadSeek(v) ==
    [v EXCEPT !.t = ThreadReturns(@, Seek(v.t.reader, v.t.initial_pos, v.t.created).w)]

\* The parent of the calls, a ZstdReader or an FdReader.
ZstdParent == [z |-> zr, s |-> src, decoded |-> decoded, resumed |-> resumed, ri |-> NoCall]

FdParent == FdWorld(file, readers[1], NoSink, Undisturbed)

\* The step of thread `i` to `v`. Two threads that set the parent's status
\* with nothing to order them race: what follows is undefined.
ThreadBecomes(v, i) ==
    /\ ~threads.undefined
    /\ threads.of[i].pc # "done"
    /\ LET written == IF threads.kind = "zstd" THEN v.p # ZstdParent ELSE v.p # FdParent
           overlaps == \E j \in 1..MaxThreads :
                         j # i /\ threads.of[j].pc \notin {"idle", "done"}
       IN  threads' = [threads EXCEPT !.of[i] = v.t,
                                      !.wrote = IF written THEN @ \cup {i} ELSE @,
                                      !.overlapped = @ \/ overlaps,
                                      !.undefined = written /\ overlaps]
    /\ IF threads.kind = "zstd"
       THEN /\ zr' = v.p.z
            /\ src' = v.p.s
            /\ UNCHANGED <<file, readers>>
       ELSE /\ file' = v.p.k
            /\ readers' = [readers EXCEPT ![1] = v.p.r]
            /\ UNCHANGED <<zr, src>>
    /\ UNCHANGED <<decoded, resumed, ri, last, sink, calls, step, wvars, dvars, pvars,
                   cvars>>

NewThreads(kind, supported, was) ==
    [kind |-> kind, supported |-> supported, undefined |-> FALSE, was |-> was,
     overlapped |-> FALSE, wrote |-> {}, of |-> [i \in 1..MaxThreads |-> NewThread]]

\* A ZstdReader as constructed over each frame and source, or an FdReader
\* over a regular file as constructed in each mode.
ThreadInit ==
    \/ /\ \E f \in Frames, chunk \in {"byte", "whole"}, growing_source \in BOOLEAN,
             created \in BOOLEAN, supported \in BOOLEAN :
            \E len \in 1..(Len(f) + 1) :
              LET w == Constructed(f, len, chunk, growing_source, BufLen, created) IN
              /\ zr = w.z
              /\ src = w.s
              /\ decoded = w.decoded
              /\ resumed = w.resumed
              /\ ri = w.ri
              /\ threads = NewThreads("zstd", supported, [z |-> w.z, s |-> w.s])
       /\ last = [op |-> "new", ret |-> TRUE]
       /\ NoFdReader
       /\ NoWriter
       /\ NoDigester
       /\ NoPool
       /\ NoDescriptors
    \/ /\ \E size \in 0..MaxFile, growing_source \in BOOLEAN, assumed_pos \in {Unknown, 0},
             independent_pos \in {Unknown, 0}, buffer_options \in BufferPolicies :
            \E offset \in 0..size :
              LET k == OpenFile(size, offset, "file")
                  w == WithBufferOptions(FdConstructed(k, <<"sysx", "f">>, growing_source,
                                                       FALSE, assumed_pos, independent_pos,
                                                       Undisturbed),
                                         buffer_options)
              IN  /\ assumed_pos = Unknown \/ independent_pos = Unknown
                  /\ file = w.k
                  /\ readers = <<w.r>>
                  /\ threads = NewThreads("fd", TRUE, [k |-> w.k, r |-> w.r])
       /\ sink = NoSink
       /\ calls = <<>>
       /\ step = None
       /\ NoZstdReader
       /\ NoWriter
       /\ NoDigester
       /\ NoPool
       /\ NoDescriptors

\* The positions a thread may ask for.
Requests == IF threads.kind = "zstd" THEN 0..PositionMax ELSE Offsets

\* A thread calls NewReader(initial_pos), which calls NewReaderImpl(), up
\* to the ok() check. The threads are alike: they call in turn.
DoThreadCall ==
    \E i \in 1..MaxThreads, initial_pos \in Requests, created \in BOOLEAN :
      /\ threads.of[i].pc = "idle"
      /\ i > 1 => threads.of[i - 1].pc # "idle"
      /\ threads.kind = "fd" => created
      /\ ThreadBecomes(IF threads.kind = "zstd"
                       THEN ZstdThreadCheck(Pair(ZstdParent, ThreadCalled(initial_pos, created)))
                       ELSE FdThreadCheck(Pair(FdParent, ThreadCalled(initial_pos, created))),
                       i)

DoZstdThreadSource ==
    \E i \in 1..MaxThreads :
      /\ threads.kind = "zstd"
      /\ threads.of[i].pc = "source"
      /\ ThreadBecomes(ZstdThreadSource(Pair(ZstdParent, threads.of[i]), threads.supported), i)

DoThreadConstruct ==
    \E i \in 1..MaxThreads :
      /\ threads.of[i].pc = "construct"
      /\ ThreadBecomes(IF threads.kind = "zstd"
                       THEN ZstdThreadConstruct(Pair(ZstdParent, threads.of[i]))
                       ELSE FdThreadConstruct(Pair(FdParent, threads.of[i])),
                       i)

DoZstdThreadSeek ==
    \E i \in 1..MaxThreads :
      /\ threads.kind = "zstd"
      /\ threads.of[i].pc = "seek"
      /\ ThreadBecomes(ZstdThreadSeek(Pair(ZstdParent, threads.of[i])), i)

DoFdThreadSize ==
    \E i \in 1..MaxThreads :
      /\ threads.kind = "fd"
      /\ threads.of[i].pc = "size"
      /\ ThreadBecomes(FdThreadSize(Pair(FdParent, threads.of[i])), i)

ThreadNext ==
    \/ DoThreadCall
    \/ DoZstdThreadSource
    \/ DoThreadConstruct
    \/ DoZstdThreadSeek
    \/ DoFdThreadSize

ThreadSpec == ThreadInit /\ [][ThreadNext]_vars

\* The parent as it was before the calls, and the threads that returned.
ParentWas ==
    IF threads.kind = "zstd" THEN [ZstdParent EXCEPT !.z = threads.was.z, !.s = threads.was.s]
    ELSE FdWorld(threads.was.k, threads.was.r, NoSink, Undisturbed)

Returned == {i \in 1..MaxThreads : threads.of[i].pc = "done"}

ParentKept ==
    IF threads.kind = "zstd" THEN zr = threads.was.z /\ src = threads.was.s
    ELSE file = threads.was.k /\ readers = <<threads.was.r>>

\* The source's NewReader() gives a reader, or the FdReader supports
\* NewReader().
SourceGives ==
    IF threads.kind = "zstd" THEN threads.supported /\ SrcOk(threads.was.s)
    ELSE SupportsNewReader(threads.was.r)

\* What the call of thread `i` returns when it runs alone.
CalledAlone(i) ==
    IF threads.kind = "zstd"
    THEN ZstdNewReaderImpl(ParentWas, threads.of[i].initial_pos, threads.supported,
                           threads.of[i].created).ret
    ELSE NewReaderImpl(ParentWas, threads.of[i].initial_pos).returned

\* Where the reader a thread got is.
ChildPos(i) ==
    IF threads.kind = "zstd" THEN pos(threads.of[i].reader.z)
    ELSE threads.of[i].reader.limit_pos

ChildOk(i) ==
    IF threads.kind = "zstd" THEN ok(threads.of[i].reader.z) ELSE ok(threads.of[i].reader)

ParentOk == IF threads.kind = "zstd" THEN ok(threads.was.z) ELSE ok(threads.was.r)

\* C30 as it stands: every call on an ok parent whose source gives
\* readers returns a reader at the position asked for.
C30_AsStated ==
    ~threads.undefined /\ SourceGives /\ ParentOk =>
      \A i \in Returned :
        /\ threads.of[i].reader # NullReader
        /\ ChildPos(i) = threads.of[i].initial_pos

\* The reader of thread `i` is where its Seek() or its InitializePos()
\* could take it.
Placed(i) ==
    IF threads.kind = "zstd"
    THEN /\ ChildPos(i) <= threads.of[i].initial_pos
         /\ ChildPos(i) < threads.of[i].initial_pos =>
              \/ ~ChildOk(i)
              \/ threads.of[i].reader.z.decompressor = NullDctx
              \/ threads.of[i].reader.s.pos = threads.of[i].reader.s.len
    ELSE /\ threads.of[i].initial_pos <= OffsetMax =>
              ChildOk(i) /\ ChildPos(i) = threads.of[i].initial_pos
         /\ threads.of[i].initial_pos > OffsetMax =>
              /\ SameError(threads.of[i].reader.status, PositionOverflow)
              /\ ChildPos(i) = 0

\* C30: past the ok() check, NewReaderImpl() of FdReader writes nothing
\* of the parent, and NewReaderImpl() of ZstdReader writes the parent
\* only when the source's NewReader() fails; so when calls on one parent
\* interleave and the source gives readers, the parent and what it reads
\* from stay as they were and each call on an ok parent returns the
\* reader it returns when it runs alone: a reader of its own, at the
\* position asked for when that position can be reached (for FdReader up
\* to the largest file offset, beyond which the reader has failed at 0;
\* for ZstdReader up to where the decoding ends or fails).
C30_Concurrent ==
    ~threads.undefined =>
      /\ \A i \in threads.wrote :
           /\ ~SourceGives
           /\ i \in Returned
           /\ threads.of[i].reader = NullReader
      /\ threads.wrote = {} => ParentKept
      /\ SourceGives =>
           \A i \in Returned :
             /\ threads.of[i].reader = CalledAlone(i)
             /\ ParentOk = (threads.of[i].reader # NullReader)
             /\ ParentOk => Placed(i)

\* Two calls on an ok ZstdReader that overlapped have returned readers at
\* two positions.
C30_Witness ==
    /\ threads.kind = "zstd"
    /\ ~threads.undefined
    /\ threads.overlapped
    /\ Returned = 1..MaxThreads
    /\ \A i \in Returned :
         /\ threads.of[i].reader # NullReader
         /\ ChildOk(i)
         /\ ChildPos(i) = threads.of[i].initial_pos
    /\ ChildPos(1) > ChildPos(2)
    /\ ChildPos(2) > 0

\* The same on an FdReader.
C30_FdReached ==
    /\ threads.kind = "fd"
    /\ threads.overlapped
    /\ Returned = 1..MaxThreads
    /\ ChildPos(1) > ChildPos(2)
    /\ ChildPos(2) > 0
    /\ threads.of[1].reader.exact_size # Unknown

\* The source gave no reader: the call has failed the parent.
C30_WrittenReached ==
    /\ threads.kind = "zstd"
    /\ ~threads.undefined
    /\ threads.wrote # {}
    /\ ~ok(zr)

\* Two calls that overlapped were failing the parent.
C30_RaceReached == threads.undefined

\* A reader was asked for beyond the end of the data and is at the end.
C30_BeyondReached ==
    /\ threads.kind = "zstd"
    /\ \E i \in Returned :
         /\ threads.of[i].reader # NullReader
         /\ ChildOk(i)
         /\ ChildPos(i) < threads.of[i].initial_pos

\* ------------------------------ ReadInternal() in every state it meets

\* The lengths ReadInternal() may be called with (0 < min_length <=
\* max_length), and whether the source breaks before the call.
ReadLengths ==
    {c \in [min_length : 1..(PositionMax + 1), max_length : 1..(PositionMax + 1),
            breaks : BOOLEAN] :
       c.min_length <= c.max_length}

\* ReadInternal() may be called: the reader is ok.
Callable(c) == ok(zr) /\ (c.breaks => Refills)

\* What ReadInternal() called with `c` in this state returns.
ReadInternalOf(c) == ReadInternal(World(c.breaks), c.min_length, c.max_length)

\* The exact_size at the test of the four conditions: the size is probed
\* again before it.
SizeAtCall(c) == Reprobe(World(c.breaks)).z.exact_size

\* The return statements a call that promised a stable output may take.
StableExits == {"frame_end", "zstd_error", "overflow", "truncated", "source_failed"}

C31_LaterCallReached ==
    /\ ~ri.stable
    /\ ri.exit = "frame_end"
    /\ ~zr.growing_source
    /\ zr.exact_size = PositionMax
    /\ zr.limit_pos = PositionMax
    /\ ok(zr)

\* A call that promised a stable output ended because the source ran out.
C31_ExhaustedReached == ri.stable /\ ri.exit = "truncated"

\* output.size of a call: max_length cut to what is left up to the maximum
\* position.
OutputSize(c) == Min(c.max_length, PositionMax - zr.limit_pos)

\* C32: whenever a decompress step of ReadInternal() returns without frame
\* end or error, with fewer bytes in the output than the effective minimum
\* and with input left, the output is full (output.pos = output.size) and
\* it is what is left up to the maximum position (output.pos = max -
\* limit_pos), with or without stable output; the call advances limit_pos
\* by the bytes produced, which brings it to the maximum, fails the reader
\* with position overflow and returns false.
C32_OverflowAsserted ==
    \A c \in ReadLengths :
      Callable(c) =>
        LET r == ReadInternalOf(c) IN
        r.exit = "overflow" =>
          /\ Len(r.out) = OutputSize(c)
          /\ Len(r.out) = PositionMax - zr.limit_pos
          /\ Len(r.out) < (IF r.stable THEN SizeMax ELSE c.min_length)
          /\ r.w.z.limit_pos = zr.limit_pos + Len(r.out)
          /\ r.w.z.limit_pos = PositionMax
          /\ ~ok(r.w.z)
          /\ SameError(r.w.z.status, FailOverflow(World(FALSE)).z.status)
          /\ r.w.z.status.code = "ResourceExhausted"
          /\ ~r.ret

\* A call has left by the position overflow return.
C32_Witness ==
    /\ ri.exit = "overflow"
    /\ ~ri.ret
    /\ ~ok(zr)
    /\ zr.limit_pos = PositionMax

\* A call that leaves by the position overflow return after producing
\* bytes is possible.
C32_ProducedReached ==
    \E c \in ReadLengths :
      /\ Callable(c)
      /\ ReadInternalOf(c).exit = "overflow"
      /\ ReadInternalOf(c).out # <<>>

\* A call with stable output that has left by the position overflow
\* return: no state is like this, the engine reports an error when a stable
\* output cannot take a block.
C32_StableOverflow == ri.stable /\ ri.exit = "overflow"

\* ------------------------------------------ a backwards Seek() that fails

\* SeekBehindBuffer(), seeking backwards on an ok reader, before it seeks
\* the source: truncated is cleared, the buffer dropped, limit_pos set to 0
\* and the decompression context released.
SeekingBackwards(w) ==
    [w EXCEPT !.z.truncated = FALSE, !.z.buf = <<>>, !.z.cur = 0, !.z.limit_pos = 0,
              !.z.decompressor = NullDctx]

\* What src.Seek(initial_compressed_pos) may return false with: the source
\* has failed (now or before), or the position is past the end of a source
\* which is ok and is left at its end.
FailedSeeks(s) ==
    {[s |-> [k EXCEPT !.broken = FALSE], ret |-> FALSE] :
       k \in IF SrcOk(s) THEN {SrcFail(s), [s EXCEPT !.pos = s.len, !.lim = s.len]} ELSE {s}}

\* The positions a backwards Seek() of this state may ask for.
BackwardsTargets == {new_pos \in 0..PositionMax : new_pos < start_pos(zr)}

\* C33: when an ok ZstdReader seeks backwards and src.Seek(
\* initial_compressed_pos) returns false, the reader fails with the status
\* of the source if the source has failed and with DataLoss("Zstd-compressed
\* stream got truncated") otherwise; the buffer is empty, limit_pos is 0,
\* there is no decompression context and false is returned.
C33_RewindFailed ==
    \A new_pos \in BackwardsTargets, created \in BOOLEAN :
      ok(zr) =>
        \A k \in FailedSeeks(src) :
          LET r == Rewound(SeekingBackwards(SyncBuffer(World(FALSE))), k, new_pos, created) IN
          /\ ~r.ret
          /\ ~ok(r.w.z)
          /\ IF SrcOk(k.s)
             THEN SameError(r.w.z.status,
                            Status("DataLoss", "Zstd-compressed stream got truncated"))
             ELSE SameError(r.w.z.status, k.s.status)
          /\ r.w.z.buf = <<>>
          /\ available(r.w.z) = 0
          /\ r.w.z.limit_pos = 0
          /\ r.w.z.decompressor = NullDctx
          /\ r.w.s = k.s

\* Seek() as a whole agrees: when the source fails in the seek, the reader
\* is left as C33 says.
C33_SeekAgrees ==
    \A new_pos \in BackwardsTargets, created \in BOOLEAN :
      (ok(zr) /\ SrcOk(src) /\ src.pos # RewindTarget(zr)) =>
        Seek(World(TRUE), new_pos, created) =
          Rewound(SeekingBackwards(SyncBuffer(World(TRUE))),
                  SrcSeek(World(TRUE).s, RewindTarget(zr)), new_pos, created)

\* A backwards Seek() has failed because the source failed in its seek.
C33_Witness ==
    /\ last = [op |-> "SeekBack", ret |-> FALSE]
    /\ ~ok(zr)
    /\ ~SrcOk(src)
    /\ SameError(zr.status, src.status)
    /\ zr.limit_pos = 0
    /\ zr.buf = <<>>
    /\ zr.decompressor = NullDctx

\* A reader that has decoded bytes can seek backwards while its source may
\* turn out shorter than initial_compressed_pos.
C33_DataLossReached ==
    /\ ok(zr) /\ SrcOk(src)
    /\ BackwardsTargets # {}
    /\ decoded # <<>>

\* A backwards Seek() has failed with the data loss error: no step of the
\* reader's history gets here, the sources of the histories never shrink;
\* the case is met by FailedSeeks() only.
C33_DataLossStep == last.op = "SeekBack" /\ ~ok(zr) /\ zr.status.code = "DataLoss"

\* ---------------------- the bytes and the input a ReadInternal() accounts

\* The bytes the block tokens of the source between two cursors decode to.
ContentBetween(s, from, to) == BlocksContent(SelectSeq(SubSeq(s.data, from + 1, to), IsBlock))

\* The decoded bytes a context holds back.
HeldBack(d) == Len(d.pending)

\* C34: every ReadInternal() call that ran the decompressor, whatever the
\* return taken, leaves limit_pos advanced by exactly the bytes it wrote to
\* dest (no more than output.size, the position not past its maximum) and
\* the cursor of the source advanced by exactly the input consumed (what was
\* written, with what the context holds back, is what the tokens passed
\* decode to) and within the buffer of the source; so Pull() and Read() never
\* move the position backwards and each decoded byte is counted once.
C34_Accounted ==
    /\ \A c \in ReadLengths :
         Callable(c) =>
           LET r == ReadInternalOf(c) IN
           r.exit # "no_decompressor" =>
             /\ r.w.z.limit_pos = zr.limit_pos + Len(r.out)
             /\ r.w.z.limit_pos <= PositionMax
             /\ Len(r.out) <= OutputSize(c)
             /\ r.w.decoded = decoded \o r.out
             /\ r.w.s.data = src.data
             /\ src.pos <= r.w.s.pos
             /\ r.w.s.pos <= r.w.s.lim
             /\ r.w.s.lim <= r.w.s.len
             /\ Len(r.out) + HeldBack(r.w.z.decompressor)
                  = HeldBack(zr.decompressor) + Len(ContentBetween(src, src.pos, r.w.s.pos))
             /\ IsPrefix(r.out, zr.decompressor.pending
                                  \o ContentBetween(src, src.pos, r.w.s.pos))
    /\ \A breaks \in BOOLEAN :
         (breaks => Refills) =>
           /\ \A min_length \in 1..BufLen :
                pos(Pull(World(breaks), min_length).w.z) >= pos(zr)
           /\ \A length \in 1..PositionMax :
                LET r == Read(World(breaks), length) IN
                /\ pos(r.w.z) >= pos(zr)
                /\ ok(zr) => pos(r.w.z) = pos(zr) + Len(r.out)

\* In a session the position of the limit is the count of the bytes
\* decoded, and they are the start of what the tokens passed decode to.
C34_CountedOnce ==
    zr.decompressor # NullDctx =>
      /\ zr.limit_pos = Len(decoded)
      /\ zr.limit_pos + HeldBack(zr.decompressor)
           = Len(ContentBetween(src, zr.initial_compressed_pos, src.pos))
      /\ IsPrefix(decoded, ContentBetween(src, zr.initial_compressed_pos, src.pos))

\* A call has written bytes and returned with the engine holding decoded
\* bytes back and with input left in the buffer of the source.
C34_Witness ==
    /\ ri.exit = "enough"
    /\ zr.decompressor.pending # <<>>
    /\ zr.limit_pos > 0
    /\ src.pos < src.lim
    /\ decoded # <<>>

\* A call has returned false for an exhausted source after writing bytes.
C34_ExhaustedReached == ri.exit = "truncated" /\ ~ri.ret /\ zr.limit_pos > 0 /\ src.pos = src.lim

\* ------------------------------------- what CopyInternal() accounts for

\* How many bytes the copy_file_range() calls among the first `n` calls of
\* the operation copied.
RECURSIVE RangeCopiedBy(_)
RangeCopiedBy(n) ==
    IF n = 0 THEN 0
    ELSE RangeCopiedBy(n - 1) + (IF IsRange(n) /\ calls[n].ret > 0 THEN calls[n].ret ELSE 0)

\* All that copy_file_range() copied in the operation.
RangeCopied_k == RangeCopiedBy(Len(calls))

\* The operation fell back to BufferedReader::CopyInternal().
FellBack == \E n \in 1..Len(calls) : IsRange(n) /\ Refused(n)

\* What the fallback read.
GenericRead == TotalRead - RangeCopied_k

\* The writer's start_pos once the first Flush() of the loop has written
\* the writer's buffer; the later Flush() calls find the buffer empty.
StartAfterFlush ==
    IF calls # <<>> /\ calls[1].call = "Flush" /\ calls[1].ret = 1
    THEN step.to.start_pos + Len(step.to.buf)
    ELSE step.to.start_pos

C35_EndReached ==
    /\ step.op = "Copy"
    /\ step.args.length = 2
    /\ RangeCopied_k = 1
    /\ ~FellBack
    /\ ~step.returned
    /\ calls[Len(calls)].ret = 0
    /\ readers[step.i].limit_pos = step.before.limit_pos + 1
    /\ sink.start_pos = StartAfterFlush + 1

\* The fallback read less than was left: false is returned.
C35_ShortFallbackReached ==
    /\ step.op = "Copy"
    /\ FellBack
    /\ GenericRead < step.args.length - RangeCopied_k
    /\ ~step.returned

\* ------------------------------------------------- closing a ZstdReader

\* dictionary_: empty, or holding a dictionary.
Dictionaries == {"empty", "set"}

\* BufferedReader::Done(): the position is kept as limit_pos and the buffer
\* released.
BufferedReaderDone(w) == [w EXCEPT !.z.limit_pos = pos(w.z), !.z.buf = <<>>, !.z.cur = 0]

\* Done() failing for no reader.
Done_IgnoresTruncated(w, dictionary) ==
    [w |-> [BufferedReaderDone(w) EXCEPT !.z.decompressor = NullDctx], dictionary |-> "empty"]

\* ZstdReaderBase::Done(): the reader after it and its dictionary_.
Done(w, dictionary) ==
    LET w1 == IF w.z.truncated /\ w.z.growing_source
              THEN FailWithoutAnnotation(w, AnnotateOverSrc(w,
                       SrcAnnotateStatus(w.s, Status("InvalidArgument",
                                                     "Truncated Zstd-compressed stream"))))
              ELSE w
    IN  [w |-> [BufferedReaderDone(w1) EXCEPT !.z.decompressor = NullDctx],
         dictionary |-> "empty"]

\* Object::Close(): Done() runs on an open object, which is closed then;
\* the value returned is whether it has not failed.
Close(w, dictionary) ==
    IF ~w.z.is_open THEN [w |-> w, dictionary |-> dictionary, ret |-> ok(w.z)]
    ELSE LET d == Done(w, dictionary) IN
         [w |-> [d.w EXCEPT !.z.is_open = FALSE], dictionary |-> d.dictionary,
          ret |-> ok(d.w.z)]

\* The last ReadInternal() call ended on an exhausted source in the middle
\* of a frame and nothing has cleared truncated since.
EndedMidFrame == zr.truncated /\ zr.decompressor # NullDctx

\* C36: Close() of a ZstdReader with growing_source whose truncated is set
\* fails the reader, if it was ok, with InvalidArgument("Truncated
\* Zstd-compressed stream") and returns false; Close() of a reader whose
\* truncated is clear (after a complete frame, after a later read or seek
\* cleared it) or without growing_source leaves the status as it was; in all
\* cases the reader has no decompression context and an empty dictionary
\* after it, and is closed.
C36_CloseTruncated ==
    \A dictionary \in Dictionaries :
      LET r == Close(World(FALSE), dictionary) IN
      /\ (zr.truncated /\ zr.growing_source) =>
           /\ ~ok(r.w.z)
           /\ ~r.ret
           /\ ok(zr) => /\ SameError(r.w.z.status, Truncated)
                        /\ HasNote(r.w.z.status, "at uncompressed byte")
           /\ ~ok(zr) => r.w.z.status = zr.status
      /\ ~(zr.truncated /\ zr.growing_source) =>
           /\ r.w.z.status = zr.status
           /\ r.ret = ok(zr)
      /\ r.w.z.decompressor = NullDctx
      /\ r.dictionary = "empty"
      /\ ~r.w.z.is_open
      /\ available(r.w.z) = 0
      /\ pos(r.w.z) = pos(zr)
      /\ r.w.s = src
      /\ Close(r.w, r.dictionary) = r

\* What a growing source had ended in the middle of a frame, the reader
\* being ok with truncated set and holding its context: Close() fails it.
C36_Witness ==
    /\ zr.growing_source
    /\ EndedMidFrame
    /\ ri.exit = "truncated"
    /\ ok(zr)
    /\ decoded # <<>>
    /\ ~Close(World(FALSE), "set").ret
    /\ SameError(Close(World(FALSE), "set").w.z.status, Truncated)

\* The frame was read to its end from a growing source after a read had
\* found it truncated: Close() succeeds.
C36_CompleteReached ==
    /\ zr.growing_source
    /\ resumed
    /\ ri.exit = "frame_end"
    /\ ~zr.truncated
    /\ ok(zr)
    /\ Close(World(FALSE), "set").ret

\* A reader of a growing source failed while truncated was set: Close()
\* keeps the status it failed with.
C36_FailedBeforeReached ==
    /\ zr.growing_source
    /\ zr.truncated
    /\ ~ok(zr)

\* ----------------------------------------- Seek() and the end of the file

\* A Seek() step of a reader that was ok and had random access.
SeekingRandomly ==
    /\ step.op = "Seek"
    /\ ok(step.before)
    /\ step.before.supports_random_access

\* The size of the file as the seek takes it: exact_size when known, else
\* what fstat() returned.
SeekFileSize ==
    IF step.before.exact_size # Unknown THEN step.before.exact_size
    ELSE IF calls # <<>> /\ calls[1].call = "fstat" THEN calls[1].ret
    ELSE Len(step.was.data)

\* The seek is forwards and past the end of the file.
SeekPastEnd ==
    /\ step.args.new_pos > step.before.limit_pos
    /\ step.args.new_pos > SeekFileSize

\* A system call of the step failed.
SeekCallFailed == \E n \in 1..Len(calls) : calls[n].ret < 0

\* Where the seek goes.
SeekGoal == IF SeekPastEnd THEN SeekFileSize ELSE step.args.new_pos

\* C37: SeekBehindBuffer(new_pos) on an ok FdReader with random access: a
\* seek forwards to a position greater than the size of the file (exact_size
\* if known, else what fstat() says) leaves the reader at the size, ok, and
\* returns false; a seek to a position not greater than the size sets
\* limit_pos to it and returns true; sharing the descriptor's position, the
\* reader moves the descriptor's offset there with lseek(), else it leaves
\* the descriptor alone; fstat() is called only when seeking forwards
\* without exact_size; and when lseek() or fstat() fails the reader fails
\* with that operation's error and false is returned.
C37_SeekToSize ==
    SeekingRandomly =>
      LET r == readers[step.i]
          forwards == step.args.new_pos > step.before.limit_pos
      IN  /\ ~SeekCallFailed =>
               /\ ok(r)
               /\ r.limit_pos = SeekGoal
               /\ step.returned <=> ~SeekPastEnd
               /\ ~r.has_independent_pos => file.offset = SeekGoal
               /\ (forwards /\ step.args.new_pos <= SeekFileSize) =>
                    r.limit_pos = step.args.new_pos /\ step.returned
               /\ ~forwards => r.limit_pos = step.args.new_pos /\ step.returned
          /\ SeekCallFailed =>
               /\ ~ok(r)
               /\ ~step.returned
               /\ calls[Len(calls)].ret < 0
               /\ r.status.code = <<"errno", calls[Len(calls)].errno>>
               /\ r.status.msg = <<calls[Len(calls)].call \o "()", " failed">>
               /\ r.limit_pos = step.before.limit_pos
          /\ r.has_independent_pos =>
               /\ file.offset = step.was.offset
               /\ \A n \in 1..Len(calls) : calls[n].call = "fstat"
          /\ ~r.has_independent_pos =>
               \A n \in 1..Len(calls) :
                 calls[n].call = "lseek" =>
                   /\ n = Len(calls)
                   /\ calls[n].args = <<SeekGoal, "SEEK_SET">>
          /\ \A n \in 1..Len(calls) :
               /\ calls[n].call \in {"fstat", "lseek"}
               /\ calls[n].call = "fstat" =>
                    n = 1 /\ forwards /\ step.before.exact_size = Unknown
          /\ file.data = step.was.data
          /\ r.exact_size = IF /\ step.before.exact_size = Unknown
                               /\ ~r.growing_source
                               /\ calls # <<>> /\ calls[1].call = "fstat" /\ calls[1].ret >= 0
                            THEN calls[1].ret
                            ELSE step.before.exact_size

\* A reader sharing the descriptor's position seeked forwards past the end
\* of a file whose size fstat() told: it stands at the size, ok, the
\* descriptor's offset with it, and false was returned.
C37_Witness ==
    /\ SeekingRandomly
    /\ ~readers[step.i].has_independent_pos
    /\ step.before.exact_size = Unknown
    /\ SeekPastEnd
    /\ Len(calls) = 2
    /\ ~SeekCallFailed
    /\ ~step.returned
    /\ ok(readers[step.i])
    /\ readers[step.i].limit_pos = Len(file.data)
    /\ readers[step.i].limit_pos > step.before.limit_pos
    /\ file.offset = Len(file.data)

\* A seek forwards to the very size of the file returned true.
C37_AtSizeReached ==
    /\ SeekingRandomly
    /\ step.args.new_pos > step.before.limit_pos
    /\ step.args.new_pos = SeekFileSize
    /\ step.returned
    /\ readers[step.i].limit_pos = step.args.new_pos

\* lseek() failed when the reader was to be left at the end of the file.
C37_LSeekFailedReached ==
    /\ SeekingRandomly
    /\ SeekPastEnd
    /\ calls[Len(calls)].call = "lseek"
    /\ calls[Len(calls)].ret < 0
    /\ ~ok(readers[step.i])

\* fstat() failed.
C37_FStatFailedReached ==
    /\ SeekingRandomly
    /\ calls # <<>>
    /\ calls[1].call = "fstat"
    /\ calls[1].ret < 0
    /\ ~ok(readers[step.i])

\* A reader with exact_size known seeked past it with its own position.
C37_ExactSizeReached ==
    /\ SeekingRandomly
    /\ readers[step.i].has_independent_pos
    /\ step.before.exact_size # Unknown
    /\ SeekPastEnd
    /\ calls = <<>>
    /\ readers[step.i].limit_pos = step.before.exact_size

\* ------------------------------------------------- fd_internal::Close()

\* The largest descriptor number of the process.
MaxFd == 2

FdNumbers == 0..MaxFd

\* What Close() is compiled to: posix_close(fd, 0) where POSIX_CLOSE_RESTART
\* is defined, close(fd) elsewhere but on Windows, _close(fd) there.
Builds == {"posix_close", "close", "_close"}

\* The errors the system call of a build fails with; posix_close(fd, 0) is
\* never interrupted, _close() knows EBADF only.
CloseErrnos(build) ==
    IF build = "posix_close" THEN {"EINPROGRESS", "EBADF", "EIO"}
    ELSE IF build = "close" THEN {"EINTR", "EINPROGRESS", "EBADF", "EIO"}
    ELSE {"EBADF"}

\* What the system call may do to an open descriptor: succeed, or fail with
\* an errno, the descriptor released or not.  After EINTR it is unspecified
\* whether it was released; after EINPROGRESS it is being released.
KernelOutcomes(build) ==
    {[errno |-> "", released |-> TRUE]}
      \cup UNION {{[errno |-> e, released |-> r] : r \in {b \in BOOLEAN : e = "EINTR" \/ b}} :
                    e \in CloseErrnos(build) \ {"EBADF"}}

\* The system call on descriptor `fd` with the outcome `o`: a number that
\* is free gives EBADF; else the descriptor is released or not.  `issued`
\* are the system calls of the Close() call so far, `closed` whose
\* descriptors they released.
CloseSyscall(v, fd, o) ==
    IF v.table[fd] = "free"
    THEN [v EXCEPT !.errno = "EBADF", !.result = -1,
                   !.issued = Append(@, <<v.build, fd, "EBADF">>)]
    ELSE [v EXCEPT !.errno = o.errno,
                   !.result = IF o.errno = "" THEN 0 ELSE -1,
                   !.issued = Append(@, <<v.build, fd, o.errno>>),
                   !.closed = IF o.released THEN Append(@, v.table[fd]) ELSE @,
                   !.table[fd] = IF o.released THEN "free" ELSE @]

\* Another thread opens a file between two system calls: it gets the
\* lowest free number.
LowestFree(table) ==
    IF \E n \in FdNumbers : table[n] = "free"
    THEN CHOOSE n \in FdNumbers :
           table[n] = "free" /\ \A m \in FdNumbers : table[m] = "free" => n <= m
    ELSE -1

FdOpened(v, who) ==
    IF LowestFree(v.table) = -1 THEN v ELSE [v EXCEPT !.table[LowestFree(v.table)] = who]

\* Close() returning `ret`.
CloseReturns(v, ret) == [v EXCEPT !.ret = ret]

\* Close() calling close() again when it was interrupted, another thread
\* having opened a file meanwhile if `o.raced`.
fd_internal_Close_Retrying(v, fd, o) ==
    LET v1 == CloseSyscall(v, fd, o.first) IN
    IF v1.result >= 0 THEN CloseReturns(v1, 0)
    ELSE IF v1.errno = "EINTR"
    THEN LET v2 == CloseSyscall(IF o.raced THEN FdOpened(v1, "other") ELSE v1, fd, o.second) IN
         CloseReturns(v2, IF v2.result >= 0 \/ v2.errno \in {"EINPROGRESS", "EINTR"}
                          THEN 0 ELSE -1)
    ELSE CloseReturns(v1, IF v1.errno = "EINPROGRESS" THEN 0 ELSE -1)

\* fd_internal::Close(fd); `o.first` is what the system call does.
fd_internal_Close(v, fd, o) ==
    LET v1 == CloseSyscall(v, fd, o.first) IN
    IF v1.result >= 0 THEN CloseReturns(v1, 0)
    ELSE IF v.build = "posix_close"
    THEN CloseReturns(v1, IF v1.errno = "EINPROGRESS" THEN 0 ELSE -1)
    ELSE IF v.build = "close"
    THEN CloseReturns(v1, IF v1.errno = "EINPROGRESS" \/ v1.errno = "EINTR" THEN 0 ELSE -1)
    ELSE CloseReturns(v1, -1)

\* The process: its build, its descriptors ("mine" are those of the thread
\* that calls Close(), "other" those of other threads), and the last Close()
\* call: its system calls, what they released, errno, what was returned.
NewProcess(build, table) ==
    [build |-> build, table |-> table, fd |-> -1, issued |-> <<>>, closed |-> <<>>,
     errno |-> "", result |-> 0, ret |-> 0, before |-> table, called |-> FALSE]

CloseInit ==
    /\ \E build \in Builds, table \in [FdNumbers -> {"free", "mine"}] :
         fds = NewProcess(build, table)
    /\ NoReader
    /\ calls = <<>>
    /\ step = None
    /\ NoWriter
    /\ NoDigester
    /\ NoPool
    /\ NoThreads

\* The thread calls Close(fd) on a descriptor of its own, or on a number
\* that is free.
DoClose ==
    \E fd \in FdNumbers, first \in KernelOutcomes(fds.build),
       second \in KernelOutcomes(fds.build), raced \in BOOLEAN :
      /\ fds.table[fd] # "other"
      /\ fds' = fd_internal_Close([fds EXCEPT !.fd = fd, !.issued = <<>>, !.closed = <<>>,
                                              !.before = fds.table, !.called = TRUE],
                                  fd, [first |-> first, second |-> second, raced |-> raced])
      /\ UNCHANGED <<zvars, fvars, wvars, dvars, pvars, tvars>>

\* A thread opens a file.
DoOpen ==
    \E who \in {"mine", "other"} :
      /\ LowestFree(fds.table) # -1
      /\ fds' = FdOpened(fds, who)
      /\ UNCHANGED <<zvars, fvars, wvars, dvars, pvars, tvars>>

\* Another thread closes a descriptor of its own.
DoOtherClose ==
    \E fd \in FdNumbers :
      /\ fds.table[fd] = "other"
      /\ fds' = [fds EXCEPT !.table[fd] = "free"]
      /\ UNCHANGED <<zvars, fvars, wvars, dvars, pvars, tvars>>

CloseNext ==
    \/ DoClose
    \/ DoOpen
    \/ DoOtherClose

CloseSpec == CloseInit /\ [][CloseNext]_vars

\* The value Close() is to return for the errno of its system call.
CloseValue(build, errno) ==
    IF errno \in {"", "EINPROGRESS"} \/ (build # "posix_close" /\ errno = "EINTR")
    THEN 0 ELSE -1

\* C38: every fd_internal::Close(fd) call issues its system call
\* (posix_close(fd, 0), close(fd) or _close(fd)) exactly once, on fd; it
\* returns 0 when the call succeeded or failed with EINPROGRESS or, where
\* posix_close() is not used, with EINTR, and -1 after any other error; it
\* releases no descriptor but the caller's fd, so no descriptor that another
\* thread opened under the same number is closed.
C38_ClosedOnce ==
    fds.called =>
      /\ Len(fds.issued) = 1
      /\ fds.issued[1] = <<fds.build, fds.fd, fds.errno>>
      /\ fds.ret = CloseValue(fds.build, fds.errno)
      /\ fds.ret \in {0, -1}
      /\ fds.errno = "" <=> fds.result = 0
      /\ \A n \in 1..Len(fds.closed) : fds.closed[n] = "mine"
      /\ Len(fds.closed) <= 1
      /\ fds.closed # <<>> => fds.before[fds.fd] = "mine"
      /\ fds.before[fds.fd] = "free" => fds.errno = "EBADF" /\ fds.ret = -1

\* close() was interrupted and Close() returned 0; the number was released
\* and now names a file that another thread opened.
C38_Witness ==
    /\ fds.called
    /\ fds.build = "close"
    /\ fds.errno = "EINTR"
    /\ fds.ret = 0
    /\ Len(fds.issued) = 1
    /\ fds.closed = <<"mine">>
    /\ fds.table[fds.fd] = "other"

\* close() was interrupted and left the descriptor open: Close() returned 0.
C38_LeftOpenReached ==
    /\ fds.called
    /\ fds.errno = "EINTR"
    /\ fds.ret = 0
    /\ fds.closed = <<>>
    /\ fds.table[fds.fd] = "mine"

\* posix_close() failed with EINPROGRESS: Close() returned 0.
C38_InProgressReached ==
    fds.called /\ fds.build = "posix_close" /\ fds.errno = "EINPROGRESS" /\ fds.ret = 0

\* The system call failed with another error: Close() returned -1.
C38_ErrorReached == fds.called /\ fds.errno = "EIO" /\ fds.ret = -1

\* _close() failed: Close() returned -1.
C38_WindowsReached == fds.called /\ fds.build = "_close" /\ fds.errno = "EBADF" /\ fds.ret = -1

\* ------------------------------------- the loops, one round at a time

\* The function under way (`pc`: "new" before the reader is constructed,
\* "probe" in the loop of GetFrameHeader(), "probed" after it, "idle"
\* between calls, "read" in the loop of ReadInternal()), its lengths and
\* `out`, what `output` holds; `rounds` counts the rounds of the loop and
\* `had` is the limit of the source's buffer and what it had available
\* before the last round; `ret` and `exit` are of the function that
\* returned last.
ZstdLoop(pc, min_length, effective_min_length, size, stable) ==
    [pc |-> pc, min_length |-> min_length, effective_min_length |-> effective_min_length,
     size |-> size, stable |-> stable, out |-> <<>>, rounds |-> 0,
     had |-> [lim |-> 0, available |-> 0, need |-> 0], ret |-> FALSE, exit |-> "none"]

NoLoop(pc) == ZstdLoop(pc, 0, 0, 0, FALSE)

\* The call returns what ReadLoop() returned.
RoundReturned(e) == [done |-> TRUE, w |-> e.w, out |-> e.out, ret |-> e.ret, exit |-> e.exit]

\* The round after the engine returned `r` and src.Pull() returned `p`.
RoundEnds(w, l, r, p) ==
    IF /\ r.result = "more"
       /\ Len(l.out \o r.out) < l.effective_min_length
       /\ r.consumed = SrcAvailable(w.s)
       /\ p.ret
    THEN [done |-> FALSE, w |-> [w EXCEPT !.z.decompressor = r.d, !.s = p.s],
          out |-> l.out \o r.out, ret |-> FALSE, exit |-> "none"]
    ELSE RoundReturned(ReadLoop(w, l.min_length, l.effective_min_length, l.size, l.out))

\* RoundPulled() pulling nothing when the engine wants more input.
RoundPulled_PullsNothing(w, l, r) ==
    RoundEnds(w, l, r, SrcPull([w.s EXCEPT !.pos = @ + r.consumed], 0))

\* The round after the engine returned `r`: the source's cursor is set and,
\* if the round is to go on, src.Pull(1) called.
RoundPulled(w, l, r) ==
    RoundEnds(w, l, r, SrcPull([w.s EXCEPT !.pos = @ + r.consumed], 1))

\* One round of the for (;;) loop of ReadInternal(): the engine runs and the
\* source's cursor is set; the round goes on to the next when the engine
\* reported neither the end nor an error, `output` holds less than
\* effective_min_length, all the input was consumed and src.Pull(1)
\* succeeded; else the call returns as ReadLoop() says.
ReadRound(w, l) ==
    RoundPulled(w, l, ZSTD_decompressStream(w.z.decompressor, l.size - Len(l.out),
                                            SrcWindow(w.s)))

\* The round of the loop of GetFrameHeader() after src.Pull(need) returned
\* `p`.
ProbePulled(p, need) == [done |-> ~p.ret, s |-> p.s, ret |-> FALSE, need |-> need]

\* The round after ZSTD_getFrameHeader() returned `h`.
ProbeParsed(s, h) ==
    IF h.result = "ok" THEN [done |-> TRUE, s |-> s, ret |-> TRUE, need |-> 0]
    ELSE IF h.result = "error" THEN [done |-> TRUE, s |-> s, ret |-> FALSE, need |-> 0]
    ELSE ProbePulled(SrcPull(s, h.need), h.need)

\* One round of the loop of GetFrameHeader(): the header is parsed; the
\* function returns when it is complete or malformed or when src.Pull()
\* cannot supply what the parser asks for.
ProbeRound(s) == ProbeParsed(s, ZSTD_getFrameHeader(SrcWindow(s)))

\* ReadInternal() at its loop, `stable` being whether the output is
\* promised stable.
EnteredAs(w1, min_length, max_length, stable) ==
    [w |-> [w1 EXCEPT !.z.decompressor.stable = IF stable THEN TRUE ELSE @,
                      !.z.just_initialized = FALSE],
     l |-> ZstdLoop("read", min_length, IF stable THEN SizeMax ELSE min_length,
                    Min(max_length, PositionMax - w1.z.limit_pos), stable)]

\* ReadInternal() after the size was probed again.
EnteredProbed(w1, min_length, max_length) ==
    EnteredAs(w1, min_length, max_length, StableOutput(w1.z, max_length))

\* ReadInternal() up to its loop, for a reader that has a context.
Entered(w, min_length, max_length) ==
    EnteredProbed(Reprobe([w EXCEPT !.z.truncated = FALSE]), min_length, max_length)

\* The state is the world `w` with the function `l` under way.
LoopBecomes(w, l) ==
    /\ zr' = w.z
    /\ src' = [w.s EXCEPT !.broken = FALSE]
    /\ decoded' = w.decoded
    /\ resumed' = FALSE
    /\ ri' = NoCall
    /\ last' = l
    /\ UNCHANGED <<fvars, ovars>>

\* A source and a reader that is not constructed over it yet.
LoopInit ==
    /\ \E f \in Frames, chunk \in {"byte", "whole"}, growing_source \in BOOLEAN :
         \E len \in 1..(Len(f) + 1) :
           /\ zr = NewReader(growing_source, BufLen)
           /\ src = NewSource(f, len, chunk)
    /\ decoded = <<>>
    /\ resumed = FALSE
    /\ ri = NoCall
    /\ last = NoLoop("new")
    /\ NoFdReader
    /\ NoOthers

\* What the source had before a round.
Had(need) == [lim |-> src.lim, available |-> SrcAvailable(src), need |-> need]

\* RecognizeZstd(src) or ZstdUncompressedSize(src) is called on the source:
\* GetFrameHeader() up to its loop.
DoGetFrameHeader ==
    \E breaks \in BOOLEAN :
      /\ last.pc = "new"
      /\ \E p \in {SrcPull(World(breaks).s, FrameHeaderSizePrefix)} :
           LoopBecomes([World(breaks) EXCEPT !.s = p.s],
                       [NoLoop(IF p.ret THEN "probe" ELSE "probed") EXCEPT
                          !.had = Had(FrameHeaderSizePrefix)])

\* A round of the loop of GetFrameHeader().
DoProbeRound ==
    \E breaks \in BOOLEAN :
      /\ last.pc = "probe"
      /\ \E r \in {ProbeRound(World(breaks).s)} :
           LoopBecomes([World(breaks) EXCEPT !.s = r.s],
                       [last EXCEPT !.pc = IF r.done THEN "probed" ELSE "probe",
                                    !.rounds = @ + 1,
                                    !.ret = r.ret,
                                    !.had = Had(r.need)])

\* ZstdReader(src) is constructed over the source.
DoConstruct ==
    \E created \in BOOLEAN :
      /\ last.pc \in {"new", "probed"}
      /\ \E w \in {Initialize(World(FALSE), created)} : LoopBecomes(w, NoLoop("idle"))

\* ReadInternal(min_length, max_length, dest) is called and reaches its loop.
DoReadInternal ==
    \E c \in ReadLengths :
      /\ last.pc = "idle"
      /\ Callable(c)
      /\ zr.decompressor # NullDctx
      /\ \E e \in {Entered(World(c.breaks), c.min_length, c.max_length)} :
           LoopBecomes(e.w, e.l)

\* A round of the loop of ReadInternal().
DoRound ==
    \E breaks \in BOOLEAN :
      /\ last.pc = "read"
      /\ breaks => SrcOk(src)
      /\ \E r \in {ReadRound(World(breaks), last)} :
           LoopBecomes(r.w, [last EXCEPT !.pc = IF r.done THEN "idle" ELSE "read",
                                         !.out = r.out,
                                         !.rounds = @ + 1,
                                         !.ret = r.ret,
                                         !.exit = r.exit,
                                         !.had = Had(1)])

LoopNext ==
    \/ DoGetFrameHeader
    \/ DoProbeRound
    \/ DoConstruct
    \/ DoReadInternal
    \/ DoRound

\* The source is finite and does not grow while a function runs.
LoopSpec == LoopInit /\ [][LoopNext]_vars

\* A round of the loop of ReadInternal() went on to the next.
WentOn == last.pc = "read" /\ last.rounds > 0

\* A round of the loop of GetFrameHeader() went on to the next.
ProbedOn == last.pc = "probe" /\ last.rounds > 0

\* The bytes of the source that are not in its buffer yet: what the loops
\* can still pull.
Unpulled == src.len - src.lim

\* C39: every ReadInternal() call over a finite source returns: a round of
\* its loop that does not return has consumed all that the source had
\* available and has got at least one new byte from the source, so the
\* rounds of a call are no more than the bytes the source had left to
\* pull, and one; and every GetFrameHeader() call returns: a round of its
\* loop that does not return has got from the source the bytes the parser
\* asked for, more than it had, and the function returns true once the
\* header is complete and false once it is malformed or the source cannot
\* supply the bytes.
C39_Terminates ==
    /\ WentOn =>
         /\ src.pos = last.had.lim
         /\ src.lim > last.had.lim
         /\ SrcAvailable(src) >= 1
    /\ ProbedOn =>
         /\ SrcAvailable(src) >= last.had.need
         /\ last.had.need > last.had.available
         /\ src.lim > last.had.lim
    /\ src.lim <= src.len
    /\ src.len <= Len(src.data)
    /\ last.pc \in {"read", "probe"} => last.rounds + Unpulled <= Len(src.data)
    /\ last.pc \in {"idle", "probed"} => last.rounds + Unpulled <= Len(src.data) + 1
    /\ last.pc = "probed" =>
         /\ last.ret <=> ZSTD_getFrameHeader(SrcWindow(src)).result = "ok"
         /\ ~last.ret =>
              \/ ZSTD_getFrameHeader(SrcWindow(src)).result = "error"
              \/ ~SrcOk(src)
              \/ /\ ZSTD_getFrameHeader(SrcWindow(src)).result = "need"
                 /\ src.lim = src.len
                 /\ SrcAvailable(src) < last.had.need

\* A ReadInternal() call returned at the end of the frame after three
\* rounds of its loop, each but the last having pulled from the source.
C39_Witness ==
    /\ last.pc = "idle"
    /\ last.rounds >= 3
    /\ last.exit = "frame_end"
    /\ last.ret

\* GetFrameHeader() returned true after its loop pulled more of the header.
C39_ProbedReached ==
    /\ last.pc = "probed"
    /\ last.rounds >= 2
    /\ last.ret

\* GetFrameHeader() returned false because the source could not supply the
\* rest of the header.
C39_ProbeStarvedReached ==
    /\ last.pc = "probed"
    /\ ~last.ret
    /\ ZSTD_getFrameHeader(SrcWindow(src)).result = "need"

\* A ReadInternal() call returned false when the source ran out, after
\* rounds that had pulled from it.
C39_ExhaustedReached ==
    /\ last.pc = "idle"
    /\ last.rounds >= 2
    /\ last.exit = "truncated"

\* ------------------------------------------------- properties: C40

\* The operations the claim names, on a writer that had failed before.
OnFailedWriter ==
    /\ step.op \in {"Flush", "SetWriteSizeHint", "move"}
    /\ ~step.was_ok

\* C40 as it is stated: a failed PositionShiftingWriter has nothing
\* available, whatever was done to it since it failed.
C40_AsStated == ~ok(psw) => WriterAvailable(psw) = 0

\* C40: failing clears the buffer, and as long as no operation has set the
\* cursor of the destination outside its buffer a failed writer has no
\* buffer and nothing available: this holds after Flush(), which returns
\* false and touches nothing, after SetWriteSizeHint() on a destination that
\* is not owned or holds no buffer, and after a move of a stable destination
\* or of one that holds no buffer; no byte is written through the buffer of
\* a failed writer.
C40_NoBufferWhileDefined ==
    step.op # "undefined" =>
      /\ ~ok(psw) => NoBuffer(psw) /\ WriterAvailable(psw) = 0
      /\ step.op = "Write" => step.was_ok
      /\ (step.op = "Flush" /\ ~step.was_ok) =>
           /\ ~step.returned
           /\ psw = step.before
           /\ destination = step.was

\* SetWriteSizeHint() was called on a writer that had failed over a
\* destination that is ok: it made its call and the writer has no buffer.
C40_Witness ==
    /\ OnFailedWriter
    /\ step.op = "SetWriteSizeHint"
    /\ IsOwning(psw.kind)
    /\ calls # <<>>
    /\ ok(destination)
    /\ ~ok(psw)
    /\ WriterAvailable(psw) = 0

C40_FlushReached ==
    /\ OnFailedWriter
    /\ step.op = "Flush"
    /\ ok(destination)
    /\ WriterAvailable(destination) >= 1
    /\ NoBuffer(psw)

C40_MoveReached ==
    /\ OnFailedWriter
    /\ step.op = "move"
    /\ psw.kind = "inline"
    /\ NoBuffer(psw)

\* The failing clears a buffer that was there.
C40_ClearedReached ==
    /\ step.op = "Flush"
    /\ step.was_ok
    /\ WriterAvailable(step.before) >= 1
    /\ ~ok(psw)
    /\ NoBuffer(psw)

\* SetWriteSizeHint() or a move of a writer failed by overflow, over a
\* destination that is ok and holds a buffer: the failed writer has a
\* buffer again, which starts at nullptr.
C40_ExposedReached ==
    /\ step.op = "undefined"
    /\ ~step.was_ok
    /\ ~ok(psw)
    /\ ok(destination)
    /\ psw.start = NullPtr
    /\ WriterAvailable(psw) >= 1
====
